---- MODULE Spec2Model ----
(***************************************************************************)
(* Delegated-group ownership registry: the four tables of                  *)
(* database/psql_models.py, the owner-gated request handlers of            *)
(* api/delgroups.py and api/deleteGroups.py, the service-layer seeding of  *)
(* GROUP_OWNER rows (services/dg_services.py) and the scheduled refresh    *)
(* job (services/refresh.py + services/dg_services2.py).                   *)
(***************************************************************************)
EXTENDS Integers, Sequences, FiniteSets, TLC

(***************************************************************************)
(* Bounds of the model.                                                    *)
(***************************************************************************)
MaxOwnerId == 4
MaxGroupId == 2

(***************************************************************************)
(* Values.                                                                 *)
(***************************************************************************)
None == "<none>"

\* str.lower() on the strings the model uses.
ToLower(s) ==
  CASE s = "X" -> "x"
    [] s = "Y" -> "y"
    [] s = "Dev" -> "dev"
    [] s = "Ops" -> "ops"
    [] s = "JIRA" -> "jira"
    [] s = "Bob" -> "bob"
    [] s = "Cy" -> "cy"
    [] s = "Bob@X" -> "bob@x"
    [] s = "Confluence" -> "confluence"
    [] OTHER -> s

\* str.strip() on the strings the model uses.
Strip(s) ==
  CASE s = " Dev" -> "Dev"
    [] s = " " -> ""
    [] OTHER -> s

\* "x.lower() if x else None"
LowerOrNone(s) == IF s = None \/ s = "" THEN None ELSE ToLower(s)

\* (username, email) identities that requests and the directories supply.
IdA == <<"ann", "ann@x">>
IdB == <<"bob", "bob@x">>
IdC == <<"cy", None>>
IdD == <<"dee", "dee@x">>

\* (app, group_name) spellings that requests use for a delegated group.
GroupRefs == {<<"JIRA", "dev">>, <<"confluence", "Ops">>}
CreateRefs == {<<"jira", "Dev">>, <<"confluence", "Ops">>}
OwningNames == {"X", "x", "Y"}
SeedNames == {"X", "Y"}
Callers == {"ann@x", "bob@x", "zed@x"}
UserOwnerLists == {<<>>, <<IdA>>, <<IdB>>}
GroupOwnerLists == {<<>>, <<"X">>, <<"X", "x">>}
DirectIds == {IdA, IdB}
\* requests of POST /groups/bulk: an app and a list of group names
BulkApps == {"jira", "Confluence", "hr"}
BulkLists == {<<"Dev">>, <<"dev", "Ops">>, <<" Dev", "Dev">>, <<" ", "">>}
\* pages of one fetch the model tells apart: MaxPage stands for "MaxPage or more"
MaxPage == 5
\* spellings of two user names, with a mixed-case, an empty and no email
UserPairs == {"bob", "Bob", "cy", "Cy"} \X {"bob@x", "Bob@X", "", None}
SeedIds == {IdB, IdC}

(***************************************************************************)
(* The Directory Gateway.  A listing is the sequence of answers the        *)
(* external system gives to the successive page requests of one fetch:     *)
(* status is the HTTP status, values the (name, email) entries of the      *)
(* page, last is Jira's isLast flag resp. Confluence's "short page"        *)
(* (fewer results than the page limit).  Status 0 stands for a request that  *)
(* raises (timeout, connection error, undecodable body).                   *)
(***************************************************************************)
Page(st, vals, l) == [status |-> st, values |-> vals, last |-> l]
Raise == <<Page(0, <<>>, TRUE)>>
ListBC == <<Page(200, <<IdB, IdC>>, TRUE)>>
ListCD == <<Page(200, <<IdC, IdD>>, TRUE)>>
ListB == <<Page(200, <<IdB>>, TRUE)>>
ListFailFirst == <<Page(503, <<>>, TRUE)>>
ListEmpty == <<Page(200, <<>>, TRUE)>>
ListFailLater == <<Page(200, <<IdC, <<None, None>>>>, FALSE), Page(503, <<>>, TRUE)>>

\* The directory groups, keyed by (app, lowercase name), and the listings
\* each of them may give.
UpKeys == {<<"jira", "x">>, <<"jira", "y">>, <<"confluence", "x">>}
Listings(k) ==
  IF k = <<"jira", "x">> THEN {ListBC, ListCD, ListFailFirst, Raise}
  ELSE IF k = <<"jira", "y">> THEN {ListB}
  ELSE {ListBC, ListFailLater}

\* Confluence's getAllEmails answer: lower_username -> email.
ConfEmails == [u \in {"bob", "dee"} |-> IF u = "bob" THEN "bob@x" ELSE "dee@x"]

VARIABLES
  users,     \* dg_user rows
  groups,    \* dg_managed_group rows
  owners,    \* dg_group_owner rows
  rules,     \* dg_group_owner_group rows
  seq,       \* the autoincrement sequences of dg_managed_group and dg_group_owner
  upstream,  \* the directories: UpKeys -> listing
  run,       \* the refresh job: its position, the rows still to do, its cache
  removeTx,  \* the open transaction of a remove_group_owner request
  addTx,     \* the open transaction of an add_user_owner request
  syncTx,    \* the open transaction of a unit of the refresh job
  paging,    \* the pagination loop of a member-list fetch
  last,      \* the operation that ran last and how it ended
  hist       \* history of the refresh runs (see sync_all_finish)

vars == <<users, groups, owners, rules, seq, upstream, run, removeTx, addTx, syncTx, paging, last, hist>>

\* The tables as one value: what a session reads and what a commit writes.
DB == [users |-> users, groups |-> groups, owners |-> owners, rules |-> rules, seq |-> seq]

Commit(s) ==
  /\ users' = s.users
  /\ groups' = s.groups
  /\ owners' = s.owners
  /\ rules' = s.rules
  /\ seq' = s.seq

Rollback == UNCHANGED <<users, groups, owners, rules, seq>>

\* what the operation was, its answer (an HTTP status, 0 while a handler or the
\* job is under way), and for a pair sync the numbers it logs: rows added,
\* rows removed
Done(op, res) == last' = [op |-> op, res |-> res, added |-> 0, removed |-> 0]

(***************************************************************************)
(* Row constructors and lookups.                                           *)
(***************************************************************************)
DgUser(id, username, email) ==
  [id |-> id, username |-> username, email |-> email,
   lower_username |-> ToLower(username), lower_email |-> LowerOrNone(email)]

DgManagedGroup(id, app, name) ==
  [id |-> id, app |-> app, group_name |-> name, lower_group_name |-> ToLower(name)]

DgGroupOwner(id, gid, uid, st, via) ==
  [id |-> id, managed_group_id |-> gid, user_id |-> uid, source_type |-> st,
   via_group_name |-> via]

DgGroupOwnerGroup(gid, name) ==
  [managed_group_id |-> gid, owning_group_name |-> name,
   lower_owning_group_name |-> ToLower(name)]

\* _normalize_identity + the filter of get_or_create_user
FindUsers(s, username, email) ==
  {u \in s.users : u.lower_username = ToLower(username)
                   /\ u.lower_email = LowerOrNone(email)}

FindGroups(s, app, name) ==
  {g \in s.groups : g.app = ToLower(app) /\ g.lower_group_name = ToLower(name)}

\* one_or_none() raises MultipleResultsFound on more than one row
Multiple(S) == Cardinality(S) > 1

\* the lookup with "lower_email == None" in place of is_(None): in SQL the
\* comparison with NULL matches no row
get_or_create_user_eq_null(s, username, email) ==
  IF email # None /\ email # "" /\ FindUsers(s, username, email) # {} THEN s
  ELSE [s EXCEPT !.users = @ \cup {DgUser(Cardinality(s.users) + 1, username, email)}]

\* an upsert keyed by the username: a stored person of that username gets
\* the email of the call
get_or_create_user_upsert(s, username, email) ==
  LET named == {u \in s.users : u.lower_username = ToLower(username)}
  IN  IF named = {}
      THEN [s EXCEPT !.users = @ \cup {DgUser(Cardinality(s.users) + 1, username, email)}]
      ELSE [s EXCEPT !.users = (@ \ named) \cup {DgUser(u.id, u.username, email) : u \in named}]

get_or_create_user(s, username, email) ==
  IF FindUsers(s, username, email) # {} THEN s
  ELSE [s EXCEPT !.users = @ \cup {DgUser(Cardinality(s.users) + 1, username, email)}]

UserId(s, username, email) ==
  (CHOOSE u \in FindUsers(get_or_create_user(s, username, email), username, email) : TRUE).id

get_or_create_managed_group(s, app, name) ==
  IF FindGroups(s, app, name) # {} THEN s
  ELSE [s EXCEPT !.groups = @ \cup {DgManagedGroup(s.seq.group + 1, ToLower(app), name)},
                 !.seq.group = @ + 1]

GroupId(s, app, name) ==
  (CHOOSE g \in FindGroups(get_or_create_managed_group(s, app, name), app, name) : TRUE).id

AddOwnerRow(s, gid, uid, st, via) ==
  [s EXCEPT !.owners = @ \cup {DgGroupOwner(s.seq.owner + 1, gid, uid, st, via)},
            !.seq.owner = @ + 1]

OwnerRows(s, gid, uid, st, via) ==
  {o \in s.owners : o.managed_group_id = gid /\ o.user_id = uid
                    /\ o.source_type = st /\ o.via_group_name = via}

(***************************************************************************)
(* The authorization check.                                                *)
(***************************************************************************)
\* the check without the managed_group_id filter: a grant on any group passes
require_owner_on_any_group(s, requester_email, app, group_name) ==
  LET found == FindGroups(s, app, group_name)
      requester == {u \in s.users : u.lower_email = ToLower(requester_email)}
  IN  IF found = {} THEN 404
      ELSE IF Multiple(found) \/ Multiple(requester) THEN 500
      ELSE IF requester = {} THEN 403
      ELSE IF \E o \in s.owners : o.user_id = (CHOOSE u \in requester : TRUE).id
           THEN 200
           ELSE 403

require_owner_by_email(s, requester_email, app, group_name) ==
  LET found == FindGroups(s, app, group_name)
      requester == {u \in s.users : u.lower_email = ToLower(requester_email)}
  IN  IF found = {} THEN 404
      ELSE IF Multiple(found) \/ Multiple(requester) THEN 500
      ELSE IF requester = {} THEN 403
      ELSE IF \E o \in s.owners :
                /\ o.managed_group_id = (CHOOSE g \in found : TRUE).id
                /\ o.user_id = (CHOOSE u \in requester : TRUE).id
           THEN 200
           ELSE 403

(***************************************************************************)
(* Initial state: empty tables, every directory group answering with one   *)
(* of its listings, no job running, no request open.                       *)
(***************************************************************************)
\* fetched: the (app, owning group) keys whose member list the run has
\* requested from the directory; again: those it has requested more than once
IdleRun == [pc |-> "idle", rows |-> {}, cache |-> {}, fetched |-> {}, again |-> {}]
NoHist == [u |-> 0, clean |-> FALSE, wrote |-> FALSE, first |-> FALSE]
NoTx == [pc |-> "idle", gid |-> 0, name |-> None, delOwners |-> {}, delRules |-> {}]
NoAdd == [pc |-> "idle", gid |-> 0, id |-> <<None, None>>, uid |-> 0]
NoFetch == [pc |-> "idle", app |-> None, page |-> 0, nonempty |-> FALSE,
            got |-> [status |-> 0, size |-> None, isLast |-> None]]
NoSync == [pc |-> "idle", row |-> <<>>, members |-> <<>>, adds |-> {}, dels |-> {}]

Init ==
  /\ users = {}
  /\ groups = {}
  /\ owners = {}
  /\ rules = {}
  /\ seq = [group |-> 0, owner |-> 0]
  /\ upstream = [k \in UpKeys |-> IF k[2] = "x" THEN ListBC ELSE ListB]
  /\ run = IdleRun
  /\ removeTx = NoTx
  /\ addTx = NoAdd
  /\ syncTx = NoSync
  /\ paging = NoFetch
  /\ last = [op |-> "init", res |-> 0, added |-> 0, removed |-> 0]
  /\ hist = NoHist

\* A request leaves the directories, the job and the open transaction alone;
\* it ends the current streak of undisturbed runs.
Others == UNCHANGED <<upstream, run, removeTx, addTx, syncTx, paging>> /\ hist' = NoHist

(***************************************************************************)
(* get_or_create_user applied on its own: one call in one session; the     *)
(* reply is the id of the row returned, added says whether it was new.     *)
(***************************************************************************)
resolve_user(id) ==
  LET s == DB
      s1 == get_or_create_user(s, id[1], id[2])
  IN  /\ Others
      /\ IF Multiple(FindUsers(s, id[1], id[2]))
         THEN Rollback /\ Done("get_or_create_user", 500)
         ELSE /\ Commit(s1)
              /\ last' = [op |-> "get_or_create_user",
                          res |-> (CHOOSE u \in FindUsers(s1, id[1], id[2]) : TRUE).id,
                          added |-> Cardinality(s1.users) - Cardinality(s.users),
                          removed |-> 0]

(***************************************************************************)
(* POST /groups (open): create_group_with_owners                           *)
(***************************************************************************)
RECURSIVE AddUserOwners(_, _, _)
AddUserOwners(s, gid, uos) ==
  IF uos = <<>> THEN s
  ELSE LET u == Head(uos)
           s1 == get_or_create_user(s, u[1], u[2])
       IN  AddUserOwners(AddOwnerRow(s1, gid, UserId(s, u[1], u[2]), "USER_OWNER", None),
                         gid, Tail(uos))

RECURSIVE UserListRaises(_, _)
UserListRaises(s, uos) ==
  IF uos = <<>> THEN FALSE
  ELSE \/ Multiple(FindUsers(s, Head(uos)[1], Head(uos)[2]))
       \/ UserListRaises(get_or_create_user(s, Head(uos)[1], Head(uos)[2]), Tail(uos))

\* uq_owner_group_row: two rules of one request with the same lowercase name
RulesConflict(gos) ==
  \E i, j \in 1..Len(gos) : i < j /\ ToLower(gos[i]) = ToLower(gos[j])

create_group_with_owners(ref, uos, gos) ==
  LET s == DB
      app == ToLower(ref[1])
      gid == s.seq.group + 1
      s1 == [s EXCEPT !.groups = @ \cup {DgManagedGroup(gid, app, ref[2])},
                      !.seq.group = gid]
      s2 == AddUserOwners(s1, gid, uos)
      s3 == [s2 EXCEPT !.rules = @ \cup {DgGroupOwnerGroup(gid, gos[i]) : i \in 1..Len(gos)}]
  IN  /\ Others
      /\ IF FindGroups(s, app, ref[2]) # {}
         THEN Rollback /\ Done("create_group_with_owners", 409)
         ELSE /\ s.seq.group < MaxGroupId
              /\ s.seq.owner + Len(uos) <= MaxOwnerId
              /\ IF UserListRaises(s1, uos) \/ RulesConflict(gos)
                 THEN Rollback /\ Done("create_group_with_owners", 500)
                 ELSE Commit(s3) /\ Done("create_group_with_owners", 200)

\* uq_app_group: UNIQUE (app, lower_group_name), both NOT NULL.  The absent
\* constraint accepts every insert.
GroupInsertConflicts_NoConstraint(s, app, name) == FALSE

GroupInsertConflicts(s, app, name) == FindGroups(s, app, name) # {}

\* create_group_with_owners whose check for an existing group saw only the
\* groups in seen: the others were committed by another session between
\* the check and the INSERT, which uq_app_group then rejects.
create_group_after_stale_check(ref, uos, gos, seen) ==
  LET s == DB
      app == ToLower(ref[1])
      gid == s.seq.group + 1
      s1 == [s EXCEPT !.groups = @ \cup {DgManagedGroup(gid, app, ref[2])},
                      !.seq.group = gid]
      s2 == AddUserOwners(s1, gid, uos)
      s3 == [s2 EXCEPT !.rules = @ \cup {DgGroupOwnerGroup(gid, gos[i]) : i \in 1..Len(gos)}]
  IN  /\ Others
      /\ seen \subseteq s.groups
      /\ IF FindGroups([s EXCEPT !.groups = seen], app, ref[2]) # {}
         THEN Rollback /\ Done("create_group_with_owners", 409)
         ELSE /\ s.seq.group < MaxGroupId
              /\ s.seq.owner + Len(uos) <= MaxOwnerId
              /\ IF \/ GroupInsertConflicts(s, app, ref[2])
                    \/ UserListRaises(s1, uos)
                    \/ RulesConflict(gos)
                 THEN Rollback /\ Done("create_group_with_owners", 500)
                 ELSE Commit(s3) /\ Done("create_group_with_owners", 200)

(***************************************************************************)
(* api/delegateGroup.py, POST /groups/bulk (open): add_managed_groups.     *)
(* The reply counts the names reported as created (added).                 *)
(***************************************************************************)
RECURSIVE Cleaned(_)
Cleaned(names) ==
  IF names = <<>> THEN <<>>
  ELSE IF Strip(Head(names)) = "" THEN Cleaned(Tail(names))
  ELSE <<Strip(Head(names))>> \o Cleaned(Tail(names))

\* the loop over cleaned: s the session, existing_set the lowercase names
\* known to exist
RECURSIVE BulkAdd(_, _, _, _)
BulkAdd(s, app, cleaned, existing_set) ==
  IF cleaned = <<>> THEN s
  ELSE IF ToLower(Head(cleaned)) \in existing_set
  THEN BulkAdd(s, app, Tail(cleaned), existing_set)
  ELSE BulkAdd([s EXCEPT !.groups = @ \cup {DgManagedGroup(s.seq.group + 1, app, Head(cleaned))},
                         !.seq.group = @ + 1],
               app, Tail(cleaned), existing_set \cup {ToLower(Head(cleaned))})

add_managed_groups(reqApp, names) ==
  LET s == DB
      app == Strip(ToLower(reqApp))
      cleaned == Cleaned(names)
      lower_names == {ToLower(cleaned[i]) : i \in 1..Len(cleaned)}
      existing_set == {g.lower_group_name :
                         g \in {x \in s.groups : x.app = app /\ x.lower_group_name \in lower_names}}
      s1 == BulkAdd(s, app, cleaned, existing_set)
  IN  /\ Others
      /\ IF app \notin {"jira", "confluence"} \/ cleaned = <<>>
         THEN Rollback /\ Done("add_managed_groups", 400)
         ELSE /\ s1.seq.group <= MaxGroupId
              /\ Commit(s1)
              /\ last' = [op |-> "add_managed_groups", res |-> 200,
                          added |-> s1.seq.group - s.seq.group, removed |-> 0]

(***************************************************************************)
(* tests/test_queries.py: get_group_owners, the listing of a group's       *)
(* owners: one row (username, email, source_type, via_group_name) per      *)
(* dg_group_owner row, ORDER BY source_type, via_group_name, username.     *)
(* Rows equal in the three sort columns come in any order.  The *Rank      *)
(* operators give the ascending order of the strings the model uses; NULL  *)
(* sorts last.                                                             *)
(***************************************************************************)
KindRank(k) == IF k = "GROUP_OWNER" THEN 1 ELSE 2

ViaRank(v) ==
  CASE v = "X" -> 1
    [] v = "Y" -> 2
    [] OTHER -> 3

NameRank(n) ==
  CASE n = "ann" -> 1
    [] n = "bob" -> 2
    [] n = "cy" -> 3
    [] OTHER -> 4

OwnerEntries(s, app, group_name) ==
  {[id |-> o.id, username |-> u.username, email |-> u.email,
    source_type |-> o.source_type, via_group_name |-> o.via_group_name] :
     <<o, u>> \in {p \in s.owners \X s.users :
                     /\ p[2].id = p[1].user_id
                     /\ \E g \in FindGroups(s, app, group_name) :
                          g.id = p[1].managed_group_id}}

OrderByPrecedes(a, b) ==
  \/ KindRank(a.source_type) < KindRank(b.source_type)
  \/ /\ a.source_type = b.source_type
     /\ \/ ViaRank(a.via_group_name) < ViaRank(b.via_group_name)
        \/ /\ a.via_group_name = b.via_group_name
           /\ NameRank(a.username) <= NameRank(b.username)

\* every sequence of the entries that the ORDER BY admits
GroupOwnerListings(s, app, group_name) ==
  LET E == OwnerEntries(s, app, group_name)
      n == Cardinality(E)
  IN  {f \in [1..n -> E] :
         /\ \A i, j \in 1..n : i # j => f[i] # f[j]
         /\ \A i, j \in 1..n : i < j => OrderByPrecedes(f[i], f[j])}

get_group_owners(app, group_name) ==
  /\ Others
  /\ Rollback
  /\ \E out \in GroupOwnerListings(DB, app, group_name) :
       last' = [op |-> "get_group_owners", res |-> 200, added |-> 0, removed |-> 0,
                out |-> out]

(***************************************************************************)
(* The authorization check of the owner-gated handlers on its own, and     *)
(* GET /my-groups: both identify the requester by                          *)
(* lower_email == requester_email.lower() with one_or_none().  The reply   *)
(* of my_groups is the set of its rows.                                    *)
(***************************************************************************)
check_owner(requester_email, ref) ==
  /\ Others
  /\ Rollback
  /\ Done("require_owner_by_email", require_owner_by_email(DB, requester_email, ref[1], ref[2]))

my_groups(requester_email) ==
  LET user == {u \in users : u.lower_email = ToLower(requester_email)}
      rows == {<<g.app, g.group_name, o.source_type, o.via_group_name>> :
                 <<g, o>> \in {p \in groups \X owners :
                                 /\ p[2].managed_group_id = p[1].id
                                 /\ \E u \in user : p[2].user_id = u.id}}
  IN  /\ Others
      /\ Rollback
      /\ IF Multiple(user) THEN Done("my_groups", 500)
         ELSE last' = [op |-> "my_groups", res |-> 200, added |-> 0, removed |-> 0,
                       out |-> rows]

(***************************************************************************)
(* POST /owners/user (owner-gated): add_user_owner                         *)
(***************************************************************************)
add_user_owner(caller, ref, id) ==
  LET s == DB
      rc == require_owner_by_email(s, caller, ref[1], ref[2])
      gid == GroupId(s, ref[1], ref[2])
      s1 == get_or_create_user(s, id[1], id[2])
      uid == UserId(s, id[1], id[2])
  IN  /\ Others
      /\ IF rc # 200
         THEN Rollback /\ Done("add_user_owner", rc)
         ELSE IF Multiple(FindUsers(s, id[1], id[2]))
         THEN Rollback /\ Done("add_user_owner", 500)
         ELSE IF OwnerRows(s1, gid, uid, "USER_OWNER", None) # {}
         THEN Rollback /\ Done("add_user_owner", 200)
         ELSE /\ s.seq.owner < MaxOwnerId
              /\ Commit(AddOwnerRow(s1, gid, uid, "USER_OWNER", None))
              /\ Done("add_user_owner", 201)

(***************************************************************************)
(* services/dg_services.py: add_user_owner, the same operation for         *)
(* scripts.  It creates the delegated group when it is missing, takes no   *)
(* caller, and returns None whether or not it inserted a row (reply 0).    *)
(***************************************************************************)
svc_add_user_owner(ref, id) ==
  LET s == DB
      s1 == get_or_create_managed_group(s, ref[1], ref[2])
      gid == GroupId(s, ref[1], ref[2])
      s2 == get_or_create_user(s1, id[1], id[2])
      uid == UserId(s1, id[1], id[2])
      existing == OwnerRows(s2, gid, uid, "USER_OWNER", None)
  IN  /\ Others
      /\ IF \/ Multiple(FindGroups(s, ref[1], ref[2]))
            \/ Multiple(FindUsers(s, id[1], id[2]))
            \/ Multiple(existing)
         THEN Rollback /\ Done("add_user_owner", 500)
         ELSE IF existing # {}
         THEN Rollback /\ Done("add_user_owner", 0)
         ELSE /\ s2.seq.group <= MaxGroupId
              /\ s.seq.owner < MaxOwnerId
              /\ Commit(AddOwnerRow(s2, gid, uid, "USER_OWNER", None))
              /\ Done("add_user_owner", 0)

(***************************************************************************)
(* add_user_owner as the two halves another session can come between: the  *)
(* reads (authorization, person lookup, check for an existing row) and     *)
(* the INSERTs with the commit.  addTx.uid = 0 says the person was not     *)
(* found and is inserted by this request.                                  *)
(***************************************************************************)
add_user_owner_begin(caller, ref, id) ==
  LET s == DB
      rc == require_owner_by_email(s, caller, ref[1], ref[2])
      gid == GroupId(s, ref[1], ref[2])
      found == FindUsers(s, id[1], id[2])
      uid == IF found = {} THEN 0 ELSE (CHOOSE u \in found : TRUE).id
  IN  /\ addTx.pc = "idle"
      /\ Rollback
      /\ UNCHANGED <<upstream, run, removeTx, syncTx, paging>>
      /\ hist' = NoHist
      /\ IF rc # 200
         THEN UNCHANGED addTx /\ Done("add_user_owner", rc)
         ELSE IF Multiple(found)
         THEN UNCHANGED addTx /\ Done("add_user_owner", 500)
         ELSE IF uid # 0 /\ OwnerRows(s, gid, uid, "USER_OWNER", None) # {}
         THEN UNCHANGED addTx /\ Done("add_user_owner", 200)
         ELSE /\ addTx' = [pc |-> "checked", gid |-> gid, id |-> id, uid |-> uid]
              /\ Done("add_user_owner", 0)

\* uq_user_identity and uq_owner_row are UNIQUE constraints over nullable
\* columns: a row with a NULL in one of them conflicts with no other row.
UserInsertConflicts(s, id) == id[2] # None /\ FindUsers(s, id[1], id[2]) # {}

OwnerInsertConflicts(s, gid, uid, st, via) ==
  via # None /\ OwnerRows(s, gid, uid, st, via) # {}

add_user_owner_commit ==
  LET s == DB
      id == addTx.id
      newUser == DgUser(Cardinality(s.users) + 1, id[1], id[2])
      s1 == IF addTx.uid = 0 THEN [s EXCEPT !.users = @ \cup {newUser}] ELSE s
      uid == IF addTx.uid = 0 THEN newUser.id ELSE addTx.uid
  IN  /\ addTx.pc = "checked"
      /\ addTx' = NoAdd
      /\ UNCHANGED <<upstream, run, removeTx, syncTx, paging>>
      /\ hist' = NoHist
      /\ IF \/ addTx.uid = 0 /\ UserInsertConflicts(s, id)
            \/ OwnerInsertConflicts(s, addTx.gid, uid, "USER_OWNER", None)
            \/ \A g \in s.groups : g.id # addTx.gid
         THEN Rollback /\ Done("add_user_owner", 500)
         ELSE /\ s.seq.owner < MaxOwnerId
              /\ Commit(AddOwnerRow(s1, addTx.gid, uid, "USER_OWNER", None))
              /\ Done("add_user_owner", 201)

(***************************************************************************)
(* DELETE /owners/user (owner-gated): remove_user_owner                    *)
(***************************************************************************)
remove_user_owner(caller, ref, id) ==
  LET s == DB
      rc == require_owner_by_email(s, caller, ref[1], ref[2])
      gid == GroupId(s, ref[1], ref[2])
      q == {u \in s.users : /\ u.lower_username = ToLower(id[1])
                            /\ (id[2] # None => u.lower_email = ToLower(id[2]))}
      uid == (CHOOSE u \in q : TRUE).id
  IN  /\ Others
      /\ IF rc # 200
         THEN Rollback /\ Done("remove_user_owner", rc)
         ELSE IF Multiple(q)
         THEN Rollback /\ Done("remove_user_owner", 500)
         ELSE IF q = {}
         THEN Rollback /\ Done("remove_user_owner", 404)
         ELSE /\ Commit([s EXCEPT !.owners = @ \ OwnerRows(s, gid, uid, "USER_OWNER", None)])
              /\ last' = [op |-> "remove_user_owner", res |-> 200, added |-> 0,
                          removed |-> Cardinality(OwnerRows(s, gid, uid, "USER_OWNER", None))]

(***************************************************************************)
(* services/dg_services.py: remove_user_owner, the same operation for      *)
(* scripts: the DELETE joins dg_user on lower_username alone, takes no     *)
(* email and no caller, and the function returns None (reply 0).           *)
(***************************************************************************)
svc_remove_user_owner(ref, owner_username) ==
  LET s == DB
      deleted == {o \in s.owners :
                    /\ o.source_type = "USER_OWNER"
                    /\ o.via_group_name = None
                    /\ \E g \in FindGroups(s, ref[1], ref[2]) : g.id = o.managed_group_id
                    /\ \E u \in s.users : /\ u.id = o.user_id
                                           /\ u.lower_username = ToLower(owner_username)}
  IN  /\ Others
      /\ Commit([s EXCEPT !.owners = @ \ deleted])
      /\ Done("remove_user_owner", 0)

(***************************************************************************)
(* POST /owners/group (owner-gated): add_group_owner                       *)
(***************************************************************************)
\* the handler with the existing rule looked up by the name as spelled
add_group_owner_exact_case(caller, ref, name) ==
  LET s == DB
      rc == require_owner_by_email(s, caller, ref[1], ref[2])
      gid == GroupId(s, ref[1], ref[2])
      exists == {r \in s.rules : /\ r.managed_group_id = gid
                                 /\ r.owning_group_name = name}
  IN  /\ Others
      /\ IF rc # 200
         THEN Rollback /\ Done("add_group_owner", rc)
         ELSE IF exists # {}
         THEN Rollback /\ Done("add_group_owner", 200)
         ELSE /\ Commit([s EXCEPT !.rules = @ \cup {DgGroupOwnerGroup(gid, name)}])
              /\ Done("add_group_owner", 201)

add_group_owner(caller, ref, name) ==
  LET s == DB
      rc == require_owner_by_email(s, caller, ref[1], ref[2])
      gid == GroupId(s, ref[1], ref[2])
      exists == {r \in s.rules : /\ r.managed_group_id = gid
                                 /\ r.lower_owning_group_name = ToLower(name)}
  IN  /\ Others
      /\ IF rc # 200
         THEN Rollback /\ Done("add_group_owner", rc)
         ELSE IF exists # {}
         THEN Rollback /\ Done("add_group_owner", 200)
         ELSE /\ Commit([s EXCEPT !.rules = @ \cup {DgGroupOwnerGroup(gid, name)}])
              /\ Done("add_group_owner", 201)

(***************************************************************************)
(* DELETE /owners/group (owner-gated): remove_group_owner.  The handler    *)
(* issues two DELETE statements and one commit; the rows a statement       *)
(* deleted stay visible to other sessions, and locked, until the commit.   *)
(***************************************************************************)
InFlight == removeTx.pc # "idle"

\* a session that commits every statement on its own
VisibleAfterDelete_Autocommit(table, deleted) == table \ deleted

\* sessionmaker(autocommit=False): what the other sessions see of a table
\* after a DELETE statement of a session that has not committed yet
VisibleAfterDelete(table, deleted) == table

\* A statement of another session that deletes (or conflicts with) a row the
\* open transaction has deleted waits for that transaction.
Blocked(ownerRows, ruleRows) ==
  /\ InFlight
  /\ \/ \E o \in ownerRows : o.id \in removeTx.delOwners
     \/ \E r \in ruleRows : r \in removeTx.delRules

remove_group_owner_begin(caller, ref, name) ==
  LET s == DB
      rc == require_owner_by_email(s, caller, ref[1], ref[2])
      gid == GroupId(s, ref[1], ref[2])
      expanded == {o \in s.owners : /\ o.managed_group_id = gid
                                    /\ o.source_type = "GROUP_OWNER"
                                    /\ o.via_group_name = name}
  IN  /\ ~InFlight
      /\ UNCHANGED <<users, groups, rules, seq, upstream, run, addTx, syncTx, paging>>
      /\ hist' = NoHist
      /\ IF rc # 200
         THEN UNCHANGED <<owners, removeTx, addTx, syncTx, paging>> /\ Done("remove_group_owner", rc)
         ELSE /\ owners' = VisibleAfterDelete(owners, expanded)
              /\ removeTx' = [pc |-> "owners_deleted", gid |-> gid, name |-> name,
                              delOwners |-> {o.id : o \in expanded}, delRules |-> {}]
              /\ Done("remove_group_owner", 0)

remove_group_owner_rule ==
  LET deleted == {r \in rules : /\ r.managed_group_id = removeTx.gid
                                /\ r.lower_owning_group_name = ToLower(removeTx.name)}
  IN
  /\ removeTx.pc = "owners_deleted"
  /\ removeTx' = [removeTx EXCEPT !.pc = "rules_deleted", !.delRules = deleted]
  /\ rules' = VisibleAfterDelete(rules, deleted)
  /\ UNCHANGED <<users, groups, owners, seq>>
  /\ UNCHANGED <<upstream, run, addTx, syncTx, paging>>
  /\ hist' = NoHist
  /\ Done("remove_group_owner", 0)

remove_group_owner_commit ==
  /\ removeTx.pc = "rules_deleted"
  /\ owners' = {o \in owners : o.id \notin removeTx.delOwners}
  /\ rules' = rules \ removeTx.delRules
  /\ UNCHANGED <<users, groups, seq, upstream, run, addTx, syncTx, paging>>
  /\ removeTx' = NoTx
  /\ hist' = NoHist
  /\ Done("remove_group_owner", 200)

(***************************************************************************)
(* DELETE /groups: delete_delegated_group.  The handler takes no requester *)
(* identity; caller is the identity of whoever sent the request.           *)
(***************************************************************************)
\* the handler deleting the dg_managed_group row alone
delete_group_row_only(caller, ref) ==
  LET s == DB
      app == ToLower(ref[1])
      found == FindGroups(s, app, ref[2])
  IN  /\ Others
      /\ IF app \notin {"jira", "confluence"}
         THEN Rollback /\ Done("delete_delegated_group", 400)
         ELSE IF found = {}
         THEN Rollback /\ Done("delete_delegated_group", 404)
         ELSE /\ Commit([s EXCEPT !.groups = @ \ found])
              /\ Done("delete_delegated_group", 200)

delete_delegated_group(caller, ref) ==
  LET s == DB
      app == ToLower(ref[1])
      found == FindGroups(s, app, ref[2])
      gid == (CHOOSE g \in found : TRUE).id
      ownerRows == {o \in s.owners : o.managed_group_id = gid}
      ruleRows == {r \in s.rules : r.managed_group_id = gid}
  IN  /\ Others
      /\ IF app \notin {"jira", "confluence"}
         THEN Rollback /\ Done("delete_delegated_group", 400)
         ELSE IF found = {}
         THEN Rollback /\ Done("delete_delegated_group", 404)
         ELSE /\ ~Blocked(ownerRows, ruleRows)
              /\ Commit([s EXCEPT !.owners = @ \ ownerRows,
                                  !.rules = @ \ ruleRows,
                                  !.groups = @ \ found])
              /\ Done("delete_delegated_group", 200)

(***************************************************************************)
(* services/dg_services.py: add_group_owner_for_user, the per-user         *)
(* GROUP_OWNER insert (the expanded rows the refresh job starts from).     *)
(***************************************************************************)
add_group_owner_for_user(ref, via, id) ==
  LET s == DB
      s1 == get_or_create_managed_group(s, ref[1], ref[2])
      gid == GroupId(s, ref[1], ref[2])
      s2 == get_or_create_user(s1, id[1], id[2])
      uid == UserId(s1, id[1], id[2])
  IN  /\ Others
      /\ IF Multiple(FindGroups(s, ref[1], ref[2])) \/ Multiple(FindUsers(s, id[1], id[2]))
         THEN Rollback /\ Done("add_group_owner_for_user", 500)
         ELSE IF OwnerRows(s2, gid, uid, "GROUP_OWNER", via) # {}
         THEN Rollback /\ Done("add_group_owner_for_user", 200)
         ELSE /\ s2.seq.group <= MaxGroupId
              /\ s.seq.owner < MaxOwnerId
              /\ Commit(AddOwnerRow(s2, gid, uid, "GROUP_OWNER", via))
              /\ Done("add_group_owner_for_user", 201)

(***************************************************************************)
(* The external directories change on their own.                           *)
(***************************************************************************)
UpstreamChange(k, l) ==
  /\ l # upstream[k]
  /\ upstream' = [upstream EXCEPT ![k] = l]
  /\ Rollback
  /\ UNCHANGED <<run, removeTx, addTx, syncTx, paging>>
  /\ hist' = NoHist
  /\ UNCHANGED last

(***************************************************************************)
(* services/refresh.py: the member-list fetchers.  Both page through the   *)
(* listing; a non-200 answer ends the loop and what was collected so far   *)
(* is returned; a raising request propagates to the caller.  A listing     *)
(* always ends with a page that stops the loop.                            *)
(***************************************************************************)
Fetched(ms) == [raised |-> FALSE, members |-> ms]
FetchRaised == [raised |-> TRUE, members |-> <<>>]

\* the entries of one Jira page: (name, emailAddress), nameless ones dropped
RECURSIVE JiraEntries(_)
JiraEntries(vals) ==
  IF vals = <<>> THEN <<>>
  ELSE IF Head(vals)[1] = None THEN JiraEntries(Tail(vals))
  ELSE <<Head(vals)>> \o JiraEntries(Tail(vals))

\* the entries of one Confluence page: (username, email_map.get(lower))
RECURSIVE ConfluenceEntries(_, _)
ConfluenceEntries(vals, email_map) ==
  IF vals = <<>> THEN <<>>
  ELSE IF Head(vals)[1] = None THEN ConfluenceEntries(Tail(vals), email_map)
  ELSE LET username == Head(vals)[1]
           email == IF ToLower(username) \in DOMAIN email_map
                    THEN email_map[ToLower(username)] ELSE None
       IN  <<<<username, email>>>> \o ConfluenceEntries(Tail(vals), email_map)

RECURSIVE _fetch_jira_group_members(_, _)
_fetch_jira_group_members(pages, members) ==
  LET resp == Head(pages)
      members1 == members \o JiraEntries(resp.values)
  IN  IF resp.status = 0 THEN FetchRaised
      ELSE IF resp.status # 200 THEN Fetched(members)
      ELSE IF resp.last THEN Fetched(members1)
      ELSE _fetch_jira_group_members(Tail(pages), members1)

RECURSIVE _fetch_confluence_group_members(_, _, _)
_fetch_confluence_group_members(pages, email_map, members) ==
  LET resp == Head(pages)
      members1 == members \o ConfluenceEntries(resp.values, email_map)
  IN  IF resp.status = 0 THEN FetchRaised
      ELSE IF resp.status # 200 THEN Fetched(members)
      ELSE IF resp.last THEN Fetched(members1)
      ELSE _fetch_confluence_group_members(Tail(pages), email_map, members1)

fetch_members_for_group(up, app, owning_group_name) ==
  LET k == <<ToLower(app), ToLower(owning_group_name)>>
  IN  IF ToLower(app) = "jira" /\ k \in DOMAIN up
      THEN _fetch_jira_group_members(up[k], <<>>)
      ELSE IF ToLower(app) = "confluence" /\ k \in DOMAIN up
      THEN _fetch_confluence_group_members(up[k], ConfEmails, <<>>)
      ELSE Fetched(<<>>)

(***************************************************************************)
(* The pagination loops request by request.  An answer of the external     *)
(* system has a status (0: the request raises), the size of its page       *)
(* against the page limit ("empty", "short": fewer entries than the limit, *)
(* "full") and Jira's isLast ("true", "false", or None when the field is   *)
(* absent).  paging.page counts the requests of the fetch, paging.nonempty *)
(* tells whether members were collected, paging.got is the last answer.    *)
(***************************************************************************)
Answer(st, size, l) == [status |-> st, size |-> size, isLast |-> l]

Answers ==
  {Answer(200, size, l) : size \in {"empty", "short", "full"}, l \in {"true", "false", None}}
    \cup {Answer(500, "empty", None), Answer(0, "empty", None)}

fetch_begin(app) ==
  /\ paging.pc # "paging"
  /\ paging' = [NoFetch EXCEPT !.pc = "paging", !.app = app]
  /\ Rollback
  /\ UNCHANGED <<upstream, run, removeTx, addTx, syncTx, last, hist>>

NextPage(a) ==
  [paging EXCEPT !.page = IF @ < MaxPage THEN @ + 1 ELSE @,
                 !.nonempty = @ \/ a.size # "empty",
                 !.got = a]

\* one pass of the "while True" of _fetch_jira_group_members
_fetch_jira_page(a) ==
  /\ paging.pc = "paging"
  /\ paging.app = "jira"
  /\ paging' =
       IF a.status = 0 THEN [paging EXCEPT !.pc = "raised", !.got = a]
       ELSE IF a.status # 200 THEN [paging EXCEPT !.pc = "done", !.got = a]
       ELSE IF a.isLast # "false" THEN [NextPage(a) EXCEPT !.pc = "done"]
       ELSE NextPage(a)
  /\ Rollback
  /\ UNCHANGED <<upstream, run, removeTx, addTx, syncTx, last, hist>>

\* one pass of the "while True" of _fetch_confluence_group_members
_fetch_confluence_page(a) ==
  /\ paging.pc = "paging"
  /\ paging.app = "confluence"
  /\ paging' =
       IF a.status = 0 THEN [paging EXCEPT !.pc = "raised", !.got = a]
       ELSE IF a.status # 200 THEN [paging EXCEPT !.pc = "done", !.got = a]
       ELSE IF a.size # "full" THEN [NextPage(a) EXCEPT !.pc = "done"]
       ELSE NextPage(a)
  /\ Rollback
  /\ UNCHANGED <<upstream, run, removeTx, addTx, syncTx, last, hist>>

(***************************************************************************)
(* services/dg_services2.py: sync_group_owners_for_delegated_group, one    *)
(* session and one commit for the pair (delegated group, owning group).    *)
(***************************************************************************)
RECURSIVE EnsureUsers(_, _)
EnsureUsers(s, members) ==
  IF members = <<>> THEN s
  ELSE EnsureUsers(get_or_create_user(s, Head(members)[1], Head(members)[2]), Tail(members))

DesiredUserIds(s, members) ==
  {UserId(EnsureUsers(s, members), members[i][1], members[i][2]) : i \in 1..Len(members)}

ExistingRows(s, gid, via) ==
  {o \in s.owners : /\ o.managed_group_id = gid
                    /\ o.source_type = "GROUP_OWNER"
                    /\ o.via_group_name = via}

Min(S) == CHOOSE x \in S : \A y \in S : x <= y

\* step 5: one row per user of to_add_ids, in the order the users are loaded
RECURSIVE AddGroupOwnerRows(_, _, _, _)
AddGroupOwnerRows(s, gid, via, ids) ==
  IF ids = {} THEN s
  ELSE AddGroupOwnerRows(AddOwnerRow(s, gid, Min(ids), "GROUP_OWNER", via),
                         gid, via, ids \ {Min(ids)})

\* step 4 without the difference: every desired user is inserted
ToAddIds_NoDiff(desired, existing) == desired

ToAddIds(desired, existing) == desired \ existing

\* step 6 without the via_group_name filter
ToRemoveRows_AnyVia(s, gid, via, to_remove_ids) ==
  {o \in s.owners : /\ o.managed_group_id = gid
                    /\ o.source_type = "GROUP_OWNER"
                    /\ o.user_id \in to_remove_ids}

ToRemoveRows(s, gid, via, to_remove_ids) ==
  {o \in ExistingRows(s, gid, via) : o.user_id \in to_remove_ids}

SyncRaises(s, app, delegated_group, members) ==
  \/ Multiple(FindGroups(s, app, delegated_group))
  \/ UserListRaises(s, members)

\* the pair made to match the list by deleting its rows and inserting one row
\* per desired user
sync_delete_and_reinsert(s, app, delegated_group, owning_group_name, members) ==
  LET via == owning_group_name
      s1 == get_or_create_managed_group(s, app, delegated_group)
      gid == GroupId(s, app, delegated_group)
      s2 == EnsureUsers(s1, members)
      s3 == [s2 EXCEPT !.owners = @ \ ExistingRows(s2, gid, via)]
  IN  AddGroupOwnerRows(s3, gid, via, DesiredUserIds(s1, members))

sync_group_owners_for_delegated_group(s, app, delegated_group, owning_group_name, members) ==
  LET via == owning_group_name
      s1 == get_or_create_managed_group(s, app, delegated_group)
      gid == GroupId(s, app, delegated_group)
      s2 == EnsureUsers(s1, members)
      desired_user_ids == DesiredUserIds(s1, members)
      existing_user_ids == {o.user_id : o \in ExistingRows(s2, gid, via)}
      to_add_ids == ToAddIds(desired_user_ids, existing_user_ids)
      to_remove_ids == existing_user_ids \ desired_user_ids
      s3 == AddGroupOwnerRows(s2, gid, via, to_add_ids)
  IN  [s3 EXCEPT !.owners = @ \ ToRemoveRows(s3, gid, via, to_remove_ids)]

(***************************************************************************)
(* services/refresh.py main(): backfill_group_owner_rules, then            *)
(* sync_all_group_owners.  Each step below is one transaction of the job;  *)
(* requests may run between them.                                          *)
(***************************************************************************)
DerivedPairs(s) ==
  {<<o.managed_group_id, o.via_group_name>> :
     o \in {x \in s.owners : x.source_type = "GROUP_OWNER" /\ x.via_group_name # None}}

HasRule(rs, gid, lower) ==
  \E r \in rs : r.managed_group_id = gid /\ r.lower_owning_group_name = lower

\* INSERT ... SELECT DISTINCT ... ON CONFLICT DO NOTHING: every pair without a
\* rule gets one, spelled as one of the pair's GROUP_OWNER rows spells it.
backfill_group_owner_rules ==
  LET cand == {DgGroupOwnerGroup(p[1], p[2]) : p \in DerivedPairs(DB)}
      missing == {c \in cand : ~HasRule(rules, c.managed_group_id, c.lower_owning_group_name)}
  IN  /\ run.pc = "idle"
      /\ ~Blocked({}, cand)
      /\ \E new \in SUBSET missing :
           /\ \A c \in missing : HasRule(new, c.managed_group_id, c.lower_owning_group_name)
           /\ \A c, d \in new :
                (c.managed_group_id = d.managed_group_id
                 /\ c.lower_owning_group_name = d.lower_owning_group_name) => c = d
           /\ rules' = rules \cup new
      /\ run' = [IdleRun EXCEPT !.pc = "backfilled"]
      /\ hist' = [hist EXCEPT !.clean = TRUE, !.wrote = FALSE]
      /\ UNCHANGED <<users, groups, owners, seq, upstream, removeTx, addTx, syncTx, paging>>
      /\ Done("refresh", 0)

\* sync_all_group_owners, step 1: the distinct (app, group_name, via_group_name)
\* of the GROUP_OWNER rows
SyncRows(s) ==
  UNION {{<<g.app, g.group_name, o.via_group_name>> :
            g \in {y \in s.groups : y.id = o.managed_group_id}} :
         o \in {x \in s.owners : x.source_type = "GROUP_OWNER" /\ x.via_group_name # None}}

sync_all_enumerate ==
  /\ run.pc = "backfilled"
  /\ run' = [run EXCEPT !.pc = "loop", !.rows = SyncRows(DB)]
  /\ Rollback
  /\ UNCHANGED <<upstream, removeTx, addTx, syncTx, paging, hist>>
  /\ Done("refresh", 0)

NoteFetch(r, key) ==
  [r EXCEPT !.again = IF key \in r.fetched THEN @ \cup {key} ELSE @,
            !.fetched = @ \cup {key}]

Cached(key) == \E c \in run.cache : c[1] = key
CachedMembers(key) == (CHOOSE c \in run.cache : c[1] = key)[2]

\* sync_all_group_owners, step 3: one iteration of the loop over the rows
sync_all_iteration(row) ==
  LET app == row[1]
      delegated_group == row[2]
      via_group_name == row[3]
      cache_key == <<ToLower(app), ToLower(via_group_name)>>
      fetched == IF Cached(cache_key) THEN Fetched(CachedMembers(cache_key))
                 ELSE fetch_members_for_group(upstream, app, via_group_name)
      members == fetched.members
      s == DB
      s1 == sync_group_owners_for_delegated_group(s, app, delegated_group,
                                                  via_group_name, members)
      gid == GroupId(s, app, delegated_group)
  IN  /\ run.pc = "loop"
      /\ row \in run.rows
      /\ UNCHANGED <<upstream, removeTx, addTx, syncTx, paging>>
      /\ IF via_group_name = ""   \* "if not via_group_name: continue"
         THEN /\ Rollback
              /\ run' = [run EXCEPT !.rows = @ \ {row}]
              /\ UNCHANGED hist
              /\ Done("refresh", 0)
         ELSE IF fetched.raised \/ SyncRaises(s, app, delegated_group, members)
         THEN /\ Rollback
              /\ run' = IdleRun
              /\ hist' = NoHist
              /\ Done("refresh", 500)
         ELSE /\ s1.seq.owner <= MaxOwnerId
              /\ s1.seq.group <= MaxGroupId
              /\ ~Blocked(s.owners \ s1.owners, {})
              /\ Commit(s1)
              /\ run' = [(IF Cached(cache_key) THEN run ELSE NoteFetch(run, cache_key))
                            EXCEPT !.rows = @ \ {row},
                                   !.cache = @ \cup {<<cache_key, members>>}]
              /\ hist' = [hist EXCEPT !.wrote = @ \/ s1.owners # s.owners]
              /\ last' = [op |-> "sync_pair", res |-> 0,
                          added |-> Cardinality(s1.owners \ s.owners),
                          removed |-> Cardinality(s.owners \ s1.owners)]

\* services/dg_services.py, sync_all_group_owners: the loop iteration calls
\* fetch_members_for_group for every row
sync_all_iteration_uncached(row) ==
  LET app == row[1]
      delegated_group == row[2]
      via_group_name == row[3]
      key == <<ToLower(app), ToLower(via_group_name)>>
      fetched == fetch_members_for_group(upstream, app, via_group_name)
      members == fetched.members
      s == DB
      s1 == sync_group_owners_for_delegated_group(s, app, delegated_group,
                                                  via_group_name, members)
  IN  /\ run.pc = "loop"
      /\ row \in run.rows
      /\ UNCHANGED <<upstream, removeTx, addTx, syncTx, paging>>
      /\ IF via_group_name = ""   \* "if not via_group_name: continue"
         THEN /\ Rollback
              /\ run' = [run EXCEPT !.rows = @ \ {row}]
              /\ UNCHANGED hist
              /\ Done("refresh", 0)
         ELSE IF fetched.raised \/ SyncRaises(s, app, delegated_group, members)
         THEN /\ Rollback
              /\ run' = IdleRun
              /\ hist' = NoHist
              /\ Done("refresh", 500)
         ELSE /\ s1.seq.owner <= MaxOwnerId
              /\ s1.seq.group <= MaxGroupId
              /\ ~Blocked(s.owners \ s1.owners, {})
              /\ Commit(s1)
              /\ run' = [NoteFetch(run, key) EXCEPT !.rows = @ \ {row}]
              /\ hist' = [hist EXCEPT !.wrote = @ \/ s1.owners # s.owners]
              /\ last' = [op |-> "sync_pair", res |-> 0,
                          added |-> Cardinality(s1.owners \ s.owners),
                          removed |-> Cardinality(s.owners \ s1.owners)]

\* the loop is over: the job ends.  hist.clean tells that nothing but the job
\* has acted since the current run began; hist.u counts the runs that
\* completed one after the other with nothing else happening since the first
\* of them began; hist.wrote tells whether the current (or last) run changed
\* a dg_group_owner row, hist.first whether the first run of the streak did.
sync_all_finish ==
  /\ run.pc = "loop"
  /\ run.rows = {}
  /\ run' = IdleRun
  /\ hist' = IF ~hist.clean THEN NoHist
              ELSE [u |-> IF hist.u < 2 THEN hist.u + 1 ELSE 2,
                    clean |-> FALSE,
                    wrote |-> hist.wrote,
                    first |-> IF hist.u = 0 THEN hist.wrote ELSE hist.first]
  /\ Rollback
  /\ UNCHANGED <<upstream, removeTx, addTx, syncTx, paging>>
  /\ Done("refresh", 200)

(***************************************************************************)
(* One iteration of the loop as the statements of its session: the reads   *)
(* (fetch, resolution of group and users, existing rows, diff), the        *)
(* INSERTs of step 5, the DELETE of step 6 and the commit.  The job        *)
(* process can be stopped between any two of them; the session is then     *)
(* closed without commit.                                                  *)
(***************************************************************************)
UnitOpen == syncTx.pc # "idle"

\* a session that commits every statement on its own
VisibleInUnit_Autocommit(table, adds, dels) == (table \cup adds) \ dels

\* sessionmaker(autocommit=False): what the other sessions see of
\* dg_group_owner while the unit has added and deleted rows without commit
VisibleInUnit(table, adds, dels) == table

UnitResult ==
  sync_group_owners_for_delegated_group(DB, syncTx.row[1], syncTx.row[2],
                                        syncTx.row[3], syncTx.members)

sync_unit_begin(row) ==
  LET app == row[1]
      delegated_group == row[2]
      via_group_name == row[3]
      cache_key == <<ToLower(app), ToLower(via_group_name)>>
      fetched == IF Cached(cache_key) THEN Fetched(CachedMembers(cache_key))
                 ELSE fetch_members_for_group(upstream, app, via_group_name)
      members == fetched.members
      s == DB
      s1 == sync_group_owners_for_delegated_group(s, app, delegated_group,
                                                  via_group_name, members)
  IN  /\ run.pc = "loop"
      /\ row \in run.rows
      /\ ~UnitOpen
      /\ Rollback
      /\ UNCHANGED <<upstream, removeTx, addTx, paging>>
      /\ IF via_group_name = ""   \* "if not via_group_name: continue"
         THEN /\ run' = [run EXCEPT !.rows = @ \ {row}]
              /\ UNCHANGED <<syncTx, hist>>
              /\ Done("refresh", 0)
         ELSE IF fetched.raised \/ SyncRaises(s, app, delegated_group, members)
         THEN /\ run' = IdleRun
              /\ UNCHANGED syncTx
              /\ hist' = NoHist
              /\ Done("refresh", 500)
         ELSE /\ s1.seq.owner <= MaxOwnerId
              /\ s1.seq.group <= MaxGroupId
              /\ run' = [(IF Cached(cache_key) THEN run ELSE NoteFetch(run, cache_key))
                            EXCEPT !.cache = @ \cup {<<cache_key, members>>}]
              /\ syncTx' = [NoSync EXCEPT !.pc = "diffed", !.row = row,
                                           !.members = members]
              /\ UNCHANGED hist
              /\ Done("sync_pair", 0)

sync_unit_add ==
  LET adds == UnitResult.owners \ owners
  IN  /\ syncTx.pc = "diffed"
      /\ syncTx' = [syncTx EXCEPT !.pc = "added", !.adds = adds]
      /\ owners' = VisibleInUnit(owners, adds, {})
      /\ UNCHANGED <<users, groups, rules, seq, upstream, run, removeTx, addTx, paging, hist>>
      /\ Done("sync_pair", 0)

sync_unit_delete ==
  LET dels == owners \ UnitResult.owners
  IN  /\ syncTx.pc = "added"
      /\ ~Blocked(dels, {})
      /\ syncTx' = [syncTx EXCEPT !.pc = "deleted", !.dels = dels]
      /\ owners' = VisibleInUnit(owners, syncTx.adds, dels)
      /\ UNCHANGED <<users, groups, rules, seq, upstream, run, removeTx, addTx, paging, hist>>
      /\ Done("sync_pair", 0)

sync_unit_commit ==
  /\ syncTx.pc = "deleted"
  /\ Commit(UnitResult)
  /\ syncTx' = NoSync
  /\ run' = [run EXCEPT !.rows = @ \ {syncTx.row}]
  /\ hist' = [hist EXCEPT !.wrote = @ \/ syncTx.adds # {} \/ syncTx.dels # {}]
  /\ UNCHANGED <<upstream, removeTx, addTx, paging>>
  /\ last' = [op |-> "sync_pair", res |-> 200,
              added |-> Cardinality(syncTx.adds),
              removed |-> Cardinality(syncTx.dels)]

\* the job process is stopped while a unit is open
sync_unit_abort ==
  /\ UnitOpen
  /\ Rollback
  /\ syncTx' = NoSync
  /\ run' = IdleRun
  /\ hist' = NoHist
  /\ UNCHANGED <<upstream, removeTx, addTx, paging>>
  /\ last' = [op |-> "interrupted", res |-> 0,
              added |-> Cardinality(syncTx.adds),
              removed |-> Cardinality(syncTx.dels)]

(***************************************************************************)
(* The system.                                                             *)
(***************************************************************************)
Next ==
  \/ \E ref \in CreateRefs, uos \in UserOwnerLists, gos \in GroupOwnerLists :
       create_group_with_owners(ref, uos, gos)
  \/ \E c \in Callers, ref \in GroupRefs, id \in DirectIds : add_user_owner(c, ref, id)
  \/ \E c \in Callers, ref \in GroupRefs, id \in DirectIds \cup {IdC} :
       add_user_owner_begin(c, ref, id)
  \/ add_user_owner_commit
  \/ \E c \in Callers, ref \in GroupRefs, id \in DirectIds : remove_user_owner(c, ref, id)
  \/ \E c \in Callers, ref \in GroupRefs, n \in OwningNames : add_group_owner(c, ref, n)
  \/ \E c \in Callers, ref \in GroupRefs, n \in OwningNames :
       remove_group_owner_begin(c, ref, n)
  \/ remove_group_owner_rule
  \/ remove_group_owner_commit
  \/ \E c \in Callers, ref \in GroupRefs : delete_delegated_group(c, ref)
  \/ \E ref \in CreateRefs, n \in SeedNames, id \in SeedIds :
       add_group_owner_for_user(ref, n, id)
  \/ \E k \in UpKeys : \E l \in Listings(k) : UpstreamChange(k, l)
  \/ backfill_group_owner_rules
  \/ sync_all_enumerate
  \/ \E row \in run.rows : sync_all_iteration(row)
  \/ \E row \in run.rows : sync_all_iteration_uncached(row)
  \/ \E row \in run.rows : sync_unit_begin(row)
  \/ sync_unit_add
  \/ sync_unit_delete
  \/ sync_unit_commit
  \/ sync_unit_abort
  \/ sync_all_finish
  \/ \E id \in UserPairs : resolve_user(id)
  \/ \E ref \in CreateRefs, id \in DirectIds : svc_add_user_owner(ref, id)
  \/ \E ref \in CreateRefs, uos \in UserOwnerLists, gos \in GroupOwnerLists :
       \E seen \in SUBSET groups : create_group_after_stale_check(ref, uos, gos, seen)
  \/ \E a \in BulkApps, names \in BulkLists : add_managed_groups(a, names)
  \/ \E ref \in CreateRefs, id \in DirectIds : svc_remove_user_owner(ref, id[1])
  \/ \E ref \in GroupRefs : get_group_owners(ref[1], ref[2])
  \/ \E c \in Callers, ref \in GroupRefs : check_owner(c, ref)
  \/ \E c \in Callers : my_groups(c)
  \/ \E app \in {"jira", "confluence"} : fetch_begin(app)
  \/ \E a \in Answers : _fetch_jira_page(a)
  \/ \E a \in Answers : _fetch_confluence_page(a)

Spec == Init /\ [][Next]_vars

(***************************************************************************)
(* The refresh job on its own: a delegated group is created with a direct  *)
(* owner (and maybe a rule), GROUP_OWNER rows are seeded, the directories  *)
(* change, the job runs.                                                   *)
(***************************************************************************)
NextSync ==
  \/ /\ run.pc = "idle"
     /\ \E c \in {<<<<IdA>>, <<"X">>>>, <<<<IdB>>, <<>>>>} :
       create_group_with_owners(<<"jira", "Dev">>, c[1], c[2])
  \/ \E n \in SeedNames : add_group_owner_for_user(<<"jira", "Dev">>, n, IdB)
  \/ run.pc = "idle" /\ add_group_owner_for_user(<<"confluence", "Ops">>, "X", IdB)
  \/ \E k \in UpKeys : \E l \in Listings(k) : UpstreamChange(k, l)
  \/ backfill_group_owner_rules
  \/ sync_all_enumerate
  \/ \E row \in run.rows : sync_all_iteration(row)
  \/ sync_all_finish

SpecSync == Init /\ [][NextSync]_vars

(***************************************************************************)
(* The request layer on its own: the handlers of api/delgroups.py and      *)
(* api/deleteGroups.py over groups that hold direct grants, rules and      *)
(* seeded GROUP_OWNER rows; no job runs and the directories stay as they   *)
(* are.                                                                    *)
(***************************************************************************)
NextApi ==
  \/ create_group_with_owners(<<"jira", "Dev">>, <<IdA>>, <<"X">>)
  \/ create_group_with_owners(<<"confluence", "Ops">>, <<IdB>>, <<>>)
  \/ \E c \in Callers, ref \in GroupRefs : add_user_owner(c, ref, IdB)
  \/ \E c \in Callers, ref \in GroupRefs : remove_user_owner(c, ref, IdB)
  \/ \E c \in Callers, ref \in GroupRefs : add_group_owner(c, ref, "x")
  \/ \E c \in Callers, ref \in GroupRefs, n \in {"X", "x"} :
       remove_group_owner_begin(c, ref, n)
  \/ remove_group_owner_rule
  \/ remove_group_owner_commit
  \/ \E c \in Callers, ref \in GroupRefs : delete_delegated_group(c, ref)
  \/ add_group_owner_for_user(<<"jira", "Dev">>, "X", IdB)

SpecApi == Init /\ [][NextApi]_vars

(***************************************************************************)
(* The scheduled job, run again and again: GROUP_OWNER rows of bob on Dev  *)
(* via X are seeded, the membership of X goes back and forth between       *)
(* {bob, cy} and nobody, and the scheduler keeps starting the job and the  *)
(* job keeps taking its steps.                                             *)
(***************************************************************************)
JobStep ==
  \/ backfill_group_owner_rules
  \/ sync_all_enumerate
  \/ \E row \in run.rows : sync_all_iteration(row)
  \/ sync_all_finish

NextLive ==
  \/ add_group_owner_for_user(<<"jira", "Dev">>, "X", IdB)
  \/ \E l \in {ListBC, ListEmpty} : UpstreamChange(<<"jira", "x">>, l)
  \/ JobStep

SpecLive == Init /\ [][NextLive]_vars /\ WF_vars(JobStep)

(***************************************************************************)
(* Direct grants under concurrency: one group whose creation request may   *)
(* list a user twice, an add_user_owner request split into its reads and   *)
(* its commit, and the sessions that can commit in between (another        *)
(* add_user_owner request, a removal, a unit of the refresh job).          *)
(***************************************************************************)
NextRace ==
  \/ \E uos \in {<<IdA>>, <<IdA, IdA>>} :
       create_group_with_owners(<<"jira", "Dev">>, uos, <<"X">>)
  \/ \E id \in {IdB, IdC} : add_user_owner_begin("ann@x", <<"jira", "Dev">>, id)
  \/ add_user_owner_commit
  \/ \E id \in {IdB, IdC} : add_user_owner("ann@x", <<"jira", "Dev">>, id)
  \/ remove_user_owner("ann@x", <<"jira", "Dev">>, IdB)
  \/ add_group_owner_for_user(<<"jira", "Dev">>, "X", IdB)
  \/ JobStep

SpecRace == Init /\ [][NextRace]_vars

(***************************************************************************)
(* The units of the refresh job statement by statement: GROUP_OWNER rows   *)
(* of one pair are seeded while no job runs, the directory changes, the    *)
(* job runs and may be stopped inside a unit.                              *)
(***************************************************************************)
NextUnit ==
  \/ /\ run.pc = "idle"
     /\ \E id \in {IdB, IdD} : add_group_owner_for_user(<<"jira", "Dev">>, "X", id)
  \/ \E l \in {ListBC, ListCD, ListEmpty} : UpstreamChange(<<"jira", "x">>, l)
  \/ backfill_group_owner_rules
  \/ sync_all_enumerate
  \/ \E row \in run.rows : sync_unit_begin(row)
  \/ sync_unit_add
  \/ sync_unit_delete
  \/ sync_unit_commit
  \/ sync_unit_abort
  \/ sync_all_finish

SpecUnit == Init /\ [][NextUnit]_vars

(***************************************************************************)
(* The job with the sync_all_group_owners of services/dg_services.py: two  *)
(* delegated Jira groups are backed by the same owning group.              *)
(***************************************************************************)
NextSched ==
  \/ /\ run.pc = "idle"
     /\ \E g \in {"Dev", "Ops"}, id \in {IdB, IdC} :
          add_group_owner_for_user(<<"jira", g>>, "X", id)
  \/ \E l \in {ListBC, ListCD} : UpstreamChange(<<"jira", "x">>, l)
  \/ backfill_group_owner_rules
  \/ sync_all_enumerate
  \/ \E row \in run.rows : sync_all_iteration_uncached(row)
  \/ sync_all_finish

SpecSched == Init /\ [][NextSched]_vars

(***************************************************************************)
(* A member-list fetch against an external system that may answer each     *)
(* request in any way.  The loop runs on for as long as the job process    *)
(* does: a pass that can be taken is taken.                                *)
(***************************************************************************)
FetchStep ==
  \/ \E a \in Answers : _fetch_jira_page(a)
  \/ \E a \in Answers : _fetch_confluence_page(a)

NextFetch ==
  \/ \E app \in {"jira", "confluence"} : fetch_begin(app)
  \/ FetchStep

SpecFetch == Init /\ [][NextFetch]_vars /\ WF_vars(FetchStep)

(***************************************************************************)
(* Direct grants of one person on one group: bob, under two spellings, is  *)
(* added to and removed from the owners of Dev by owners and by a          *)
(* stranger, and by a script through the service layer; bob may hold a     *)
(* GROUP_OWNER row on Dev as well.                                         *)
(***************************************************************************)
NextAdd ==
  \/ \E uos \in {<<IdA>>, <<IdA, IdB>>} :
       create_group_with_owners(<<"jira", "Dev">>, uos, <<>>)
  \/ \E c \in Callers, id \in {IdB, <<"Bob", "Bob@X">>} :
       add_user_owner(c, <<"JIRA", "dev">>, id)
  \/ svc_add_user_owner(<<"jira", "Dev">>, IdB)
  \/ \E c \in Callers : remove_user_owner(c, <<"JIRA", "dev">>, IdB)
  \/ add_group_owner_for_user(<<"jira", "Dev">>, "X", IdB)

SpecAdd == Init /\ [][NextAdd]_vars

(***************************************************************************)
(* Removal of direct grants: two persons named bob (different emails) and  *)
(* ann own Dev directly, bob also through owning group X; bob's direct     *)
(* grant is removed through the request handler and through the service    *)
(* layer.                                                                  *)
(***************************************************************************)
NextRemove ==
  \/ \E uos \in {<<IdA>>, <<IdA, IdB>>} :
       create_group_with_owners(<<"jira", "Dev">>, uos, <<>>)
  \/ \E id \in {IdB, <<"bob", "bob@y">>} : add_user_owner("ann@x", <<"JIRA", "dev">>, id)
  \/ \E c \in {"ann@x", "zed@x"}, id \in {IdB, <<"bob", None>>} :
       remove_user_owner(c, <<"JIRA", "dev">>, id)
  \/ svc_remove_user_owner(<<"jira", "Dev">>, "bob")
  \/ add_group_owner_for_user(<<"jira", "Dev">>, "X", IdB)

SpecRemove == Init /\ [][NextRemove]_vars

(***************************************************************************)
(* Owning-group rules: groups are created with or without a rule, owners   *)
(* and strangers add rules under several spellings, and GROUP_OWNER rows   *)
(* exist beside them.                                                      *)
(***************************************************************************)
NextRule ==
  \/ \E ref \in CreateRefs, gos \in {<<>>, <<"X">>} :
       create_group_with_owners(ref, <<IdA>>, gos)
  \/ \E c \in Callers, ref \in GroupRefs, n \in OwningNames : add_group_owner(c, ref, n)
  \/ add_group_owner_for_user(<<"jira", "Dev">>, "X", IdB)

SpecRule == Init /\ [][NextRule]_vars

(***************************************************************************)
(* Delegated groups: created with owners (also by a request whose check    *)
(* ran before another session's commit), added in bulk, created on the     *)
(* way by the service layer, and deleted.                                  *)
(***************************************************************************)
NextGroup ==
  \/ \E ref \in {<<"jira", "Dev">>, <<"JIRA", "dev">>}, gos \in {<<>>, <<"X">>} :
       create_group_with_owners(ref, <<IdA>>, gos)
  \/ \E ref \in {<<"jira", "Dev">>, <<"JIRA", "dev">>} : \E seen \in SUBSET groups :
       create_group_after_stale_check(ref, <<IdB>>, <<>>, seen)
  \/ \E a \in BulkApps, names \in BulkLists : add_managed_groups(a, names)
  \/ add_group_owner_for_user(<<"JIRA", "dev">>, "X", IdB)
  \/ delete_delegated_group("ann@x", <<"jira", "Dev">>)

SpecGroup == Init /\ [][NextGroup]_vars

(***************************************************************************)
(* Listing the owners of Dev: ann owns it directly, ann and bob are added  *)
(* through the owning groups X and Y and directly, and the list is read.   *)
(***************************************************************************)
NextList ==
  \/ create_group_with_owners(<<"jira", "Dev">>, <<IdA>>, <<>>)
  \/ \E via \in SeedNames, id \in {IdA, IdB} :
       add_group_owner_for_user(<<"jira", "Dev">>, via, id)
  \/ \E id \in {IdB, <<"bob", "bob@y">>} : add_user_owner("ann@x", <<"JIRA", "dev">>, id)
  \/ \E ref \in {<<"jira", "Dev">>, <<"JIRA", "dev">>} : get_group_owners(ref[1], ref[2])

SpecList == Init /\ [][NextList]_vars

(***************************************************************************)
(* The refresh job beside the deletion of delegated groups: Dev has a      *)
(* direct owner and seeded GROUP_OWNER rows, the directory changes, the    *)
(* job runs, and DELETE /groups may commit between any two of its steps.   *)
(***************************************************************************)
NextPrune ==
  \/ run.pc = "idle" /\ create_group_with_owners(<<"jira", "Dev">>, <<IdA>>, <<>>)
  \/ run.pc = "idle" /\ add_group_owner_for_user(<<"jira", "Dev">>, "X", IdB)
  \/ \E k \in UpKeys : \E l \in Listings(k) : UpstreamChange(k, l)
  \/ backfill_group_owner_rules
  \/ sync_all_enumerate
  \/ \E row \in run.rows : sync_all_iteration(row)
  \/ sync_all_finish
  \/ delete_delegated_group("ann@x", <<"jira", "Dev">>)

SpecPrune == Init /\ [][NextPrune]_vars

(***************************************************************************)
(* The refresh job beside DELETE /owners/group: Dev is created with the    *)
(* rule X, GROUP_OWNER rows via X are seeded, the job runs, and the owner  *)
(* ann removes the rule X between any two steps of the job.  Nobody calls  *)
(* add_group_owner.                                                        *)
(***************************************************************************)
NextStale ==
  \/ run.pc = "idle" /\ create_group_with_owners(<<"jira", "Dev">>, <<IdA>>, <<"X">>)
  \/ run.pc = "idle" /\ add_group_owner_for_user(<<"jira", "Dev">>, "X", IdB)
  \/ \E l \in {ListBC, ListCD} : UpstreamChange(<<"jira", "x">>, l)
  \/ backfill_group_owner_rules
  \/ sync_all_enumerate
  \/ \E row \in run.rows : sync_all_iteration(row)
  \/ sync_all_finish
  \/ remove_group_owner_begin("ann@x", <<"jira", "Dev">>, "X")
  \/ remove_group_owner_rule
  \/ remove_group_owner_commit

SpecStale == Init /\ [][NextStale]_vars

(***************************************************************************)
(* The refresh job followed by the authorization check: GROUP_OWNER rows   *)
(* of Dev via X are seeded for bob under either spelling, the directory    *)
(* group X changes between runs only, the job backfills the rule and       *)
(* syncs.  Every listing of X here is answered in full.                    *)
(***************************************************************************)
NextAuth ==
  \/ /\ run.pc = "idle"
     /\ \E id \in {IdB, <<"Bob", "Bob@X">>} :
          add_group_owner_for_user(<<"jira", "Dev">>, "X", id)
  \/ /\ run.pc = "idle"
     /\ \E l \in {ListBC, ListCD, ListB} : UpstreamChange(<<"jira", "x">>, l)
  \/ backfill_group_owner_rules
  \/ sync_all_enumerate
  \/ \E row \in run.rows : sync_all_iteration(row)
  \/ sync_all_finish

SpecAuth == Init /\ [][NextAuth]_vars

(***************************************************************************)
(* The authorization check on its own: ann owns Dev and adds direct        *)
(* owners, among them cy registered with the email of bob; every caller    *)
(* is checked against every spelling of the group and asks for my-groups.  *)
(***************************************************************************)
NextCheck ==
  \/ create_group_with_owners(<<"jira", "Dev">>, <<IdA>>, <<>>)
  \/ \E id \in {IdB, IdC, <<"cy", "bob@x">>} :
       add_user_owner("ann@x", <<"JIRA", "dev">>, id)
  \/ \E c \in Callers, ref \in GroupRefs : check_owner(c, ref)
  \/ \E c \in Callers : my_groups(c)

SpecCheck == Init /\ [][NextCheck]_vars

(***************************************************************************)
(* The writers of dg_group_owner together: POST /groups and POST           *)
(* /owners/user store USER_OWNER rows, add_group_owner_for_user stores     *)
(* GROUP_OWNER rows under the via_group_name it is given, the refresh job  *)
(* backfills and syncs.                                                    *)
(***************************************************************************)
NextForm ==
  \/ /\ run.pc = "idle"
     /\ \E gos \in {<<>>, <<"X">>} : create_group_with_owners(<<"jira", "Dev">>, <<IdA>>, gos)
  \/ add_user_owner("ann@x", <<"JIRA", "dev">>, IdB)
  \/ /\ run.pc = "idle"
     /\ \E via \in {"X", ""} : add_group_owner_for_user(<<"jira", "Dev">>, via, IdB)
  \/ backfill_group_owner_rules
  \/ sync_all_enumerate
  \/ \E row \in run.rows : sync_all_iteration(row)
  \/ sync_all_finish

SpecForm == Init /\ [][NextForm]_vars

(***************************************************************************)
(* Person resolution on its own: successive calls of get_or_create_user    *)
(* with every spelling of the identities.                                  *)
(***************************************************************************)
NextUser == \E id \in UserPairs : resolve_user(id)

SpecUser == Init /\ [][NextUser]_vars

(***************************************************************************)
(* Vocabulary of the properties.                                           *)
(***************************************************************************)
\* the normalized (lowercase username, lowercase email) of a stored person
Identity(us, uid) ==
  {<<u.lower_username, u.lower_email>> : u \in {x \in us : x.id = uid}}

MemberIdentities(members) ==
  {<<ToLower(members[i][1]), LowerOrNone(members[i][2])>> : i \in 1..Len(members)}

\* the GROUP_OWNER rows of the pair (group gid, owning group spelled via)
PairRows(os, gid, via) ==
  {o \in os : /\ o.managed_group_id = gid
              /\ o.source_type = "GROUP_OWNER"
              /\ o.via_group_name = via}

\* the persons holding a GROUP_OWNER row on gid via a name whose lowercase is lower
DerivedHolders(s, gid, lower) ==
  UNION {Identity(s.users, o.user_id) :
           o \in {x \in s.owners : /\ x.managed_group_id = gid
                                   /\ x.source_type = "GROUP_OWNER"
                                   /\ ToLower(x.via_group_name) = lower}}

AllOk(listing) == \A i \in 1..Len(listing) : listing[i].status = 200
FailedListing(listing) == \E i \in 1..Len(listing) : listing[i].status \notin {0, 200}

\* a step of the job that synced one pair and committed; the pair, the member
\* list it was given, the group and the persons the list resolves to
SyncCommitted == run.pc = "loop" /\ run'.pc = "loop" /\ run'.rows # run.rows
StepRow == CHOOSE row \in run.rows \ run'.rows : TRUE
StepKey == <<ToLower(StepRow[1]), ToLower(StepRow[3])>>
StepMembers == (CHOOSE c \in run'.cache : c[1] = StepKey)[2]
StepGid ==
  (CHOOSE g \in groups' : /\ g.app = ToLower(StepRow[1])
                          /\ g.lower_group_name = ToLower(StepRow[2])).id
StepResolved ==
  {u.id : u \in {x \in users' :
                   <<x.lower_username, x.lower_email>> \in MemberIdentities(StepMembers)}}
InStepPair(o) ==
  /\ o.managed_group_id = StepGid
  /\ o.source_type = "GROUP_OWNER"
  /\ o.via_group_name = StepRow[3]

\* the iteration over row would raise: its fetch does, or its sync does
RowRaises(row) ==
  \/ /\ ~Cached(<<ToLower(row[1]), ToLower(row[3])>>)
     /\ fetch_members_for_group(upstream, row[1], row[3]).raised
  \/ LET k == <<ToLower(row[1]), ToLower(row[3])>>
         ms == IF Cached(k) THEN CachedMembers(k)
               ELSE fetch_members_for_group(upstream, row[1], row[3]).members
     IN  SyncRaises(DB, row[1], row[2], ms)

(***************************************************************************)
(* The refresh job (SpecSync).                                             *)
(***************************************************************************)
\* C1: after a run that completed undisturbed, every configured rule
\* (G, X) whose directory listing answers 200 throughout is expanded: the
\* persons holding a GROUP_OWNER row on G via X are exactly the members of
\* X, also when the pair had no GROUP_OWNER row before the run.
C1_RunExpandsRules ==
  (hist.u >= 1 /\ run.pc = "idle") =>
    \A g \in groups, r \in rules :
      LET k == <<g.app, r.lower_owning_group_name>>
      IN  (r.managed_group_id = g.id /\ k \in UpKeys /\ AllOk(upstream[k])) =>
            DerivedHolders(DB, g.id, r.lower_owning_group_name)
              = MemberIdentities(
                  fetch_members_for_group(upstream, g.app, r.owning_group_name).members)

\* C2: a run that follows a completed run, with no request and no directory
\* change since that first run began, inserts no dg_group_owner row and
\* deletes none.
C2_SecondRunWritesNothing ==
  ((hist.u >= 1 /\ hist.clean) \/ hist.u = 2) => ~hist.wrote

\* two runs in a row of which the first changed rows and the second did not
C2_Witness ==
  /\ hist.u = 2
  /\ hist.first
  /\ ~hist.wrote
  /\ \E o \in owners : o.source_type = "GROUP_OWNER"

\* C3: the sync of one pair (G, X) leaves, as holders of a GROUP_OWNER row of
\* the pair, exactly the persons its member list resolves to, one row each; a
\* row of a person in both sets stays the same row, a row of a person no
\* longer in the list is gone, and every new row is a fresh row of a person
\* who had none.
C3_PairSyncDiff ==
  [][SyncCommitted =>
       LET before == PairRows(owners, StepGid, StepRow[3])
           after == PairRows(owners', StepGid, StepRow[3])
       IN  /\ {o.user_id : o \in after} = StepResolved
           /\ \A o \in before : IF o.user_id \in StepResolved
                                  THEN o \in after
                                  ELSE \A p \in owners' : p.id # o.id
           /\ \A o \in after \ before :
                /\ o.user_id \notin {b.user_id : b \in before}
                /\ \A b \in owners : b.id # o.id
           /\ \A o, p \in after : o.user_id = p.user_id => o = p]_vars

\* membership {bob, cy} -> {cy, dee}: one row added, one removed, cy's kept
C3_Witness ==
  /\ last.op = "sync_pair"
  /\ last.added = 1
  /\ last.removed = 1
  /\ \A g \in groups : g.app = "jira"
  /\ \E g \in groups :
       /\ DerivedHolders(DB, g.id, "x") = {<<"cy", None>>, <<"dee", "dee@x">>}
       /\ Cardinality(PairRows(owners, g.id, "X")) = 2

\* C4: the sync of the pair (G, X) leaves every row that is not a GROUP_OWNER
\* row of exactly (G, X) in place, and every row it inserts or deletes is a
\* GROUP_OWNER row of (G, X).
C4_PairSyncFrame ==
  [][SyncCommitted =>
       /\ \A o \in owners : ~InStepPair(o) => o \in owners'
       /\ \A o \in owners' \ owners : InStepPair(o)
       /\ \A o \in owners \ owners' : InStepPair(o)]_vars

\* a pair sync that added a row for X while bob, a member of X, holds a
\* USER_OWNER row and a GROUP_OWNER row via Y on the same group
C4_Witness ==
  /\ last.op = "sync_pair"
  /\ last.added > 0
  /\ \E g \in groups, u \in users :
       /\ u.lower_username = "bob"
       /\ OwnerRows(DB, g.id, u.id, "USER_OWNER", None) # {}
       /\ OwnerRows(DB, g.id, u.id, "GROUP_OWNER", "X") # {}
       /\ OwnerRows(DB, g.id, u.id, "GROUP_OWNER", "Y") # {}
       /\ Cardinality(PairRows(owners, g.id, "X")) = 2

\* C5: when the directory answers a page of the listing of X with a status
\* other than 200, the sync of a pair (G, X) that fetches that listing inserts
\* no GROUP_OWNER row of the pair and deletes none.
C5_FailedFetchSkipsPair ==
  [][(/\ SyncCommitted
      /\ ~Cached(StepKey)
      /\ StepKey \in UpKeys
      /\ FailedListing(upstream[StepKey]))
       => PairRows(owners', StepGid, StepRow[3]) = PairRows(owners, StepGid, StepRow[3])]_vars

\* C6: a run ends only when every enumerated triple whose iteration does not
\* raise has been synced: a raising triple does not keep the others from
\* being reconciled.
C6_FailureIsolation ==
  [][(run.pc = "loop" /\ run'.pc = "idle") => \A row \in run.rows : RowRaises(row)]_vars

\* the rule (Dev, X) is configured, X lists {bob, cy}, and the sequence of
\* dg_group_owner has room for the rows of both
LiveStable ==
  /\ \E g \in FindGroups(DB, "jira", "Dev") : HasRule(rules, g.id, "x")
  /\ upstream[<<"jira", "x">>] = ListBC
  /\ seq.owner + 2 <= MaxOwnerId

LiveConverged ==
  \E g \in FindGroups(DB, "jira", "Dev") :
    DerivedHolders(DB, g.id, "x") = MemberIdentities(<<IdB, IdC>>)

\* C11: if from some point on the rule (Dev, X) stays configured and X keeps
\* listing {bob, cy}, then, the job running again and again, from some
\* point on the holders of GROUP_OWNER rows on Dev via X are bob and cy.
C11_EventuallyConsistent == <>[]LiveStable => <>[]LiveConverged

(***************************************************************************)
(* The request layer (SpecApi).                                            *)
(***************************************************************************)
\* the stored persons a caller email resolves to, and whether a person holds
\* a row of either kind on a group
PersonsOf(c) == {u \in users : u.lower_email = ToLower(c)}
HoldsGrantOn(u, g) ==
  \E o \in owners : o.user_id = u.id /\ o.managed_group_id = g.id
IsEffectiveOwner(c, g) == \E u \in PersonsOf(c) : HoldsGrantOn(u, g)

\* C7: what the other sessions read while a remove_group_owner request is
\* under way is the tables as they were before it (every row and every rule
\* it deleted is still there), and its commit takes the rows and the rule
\* away in one step: no reader sees the rule without its rows or the rows
\* without the rule.
C7_RemovalAtomic ==
  [][/\ removeTx'.pc # "idle" =>
          /\ \A id \in removeTx'.delOwners : \E o \in owners' : o.id = id
          /\ removeTx'.delRules \subseteq rules'
     /\ (removeTx.pc # "idle" /\ removeTx'.pc = "idle") =>
          /\ \A o \in owners' : o.id \notin removeTx.delOwners
          /\ rules' \cap removeTx.delRules = {}]_vars

\* a removal that has issued both DELETE statements, of rows and of a rule,
\* and has not committed yet
C7_Witness ==
  /\ removeTx.pc = "rules_deleted"
  /\ removeTx.delOwners # {}
  /\ removeTx.delRules # {}
  /\ \E o \in owners : o.id \in removeTx.delOwners

\* C8: when remove_group_owner(G, name) has committed, G has no rule whose
\* lowercase name is that of name and no GROUP_OWNER row via a name with
\* that lowercase form.
C8_RemovalComplete ==
  [][(removeTx.pc = "rules_deleted" /\ removeTx'.pc = "idle") =>
       /\ ~HasRule(rules', removeTx.gid, ToLower(removeTx.name))
       /\ \A o \in owners' :
            ~(/\ o.managed_group_id = removeTx.gid
              /\ o.source_type = "GROUP_OWNER"
              /\ ToLower(o.via_group_name) = ToLower(removeTx.name))]_vars

\* C9: for an existing group G the check allows a caller exactly when the
\* caller's email resolves to one stored person and that person holds a row
\* of either kind on G; it answers 403 when no person has that email and
\* when the person holds no row on G, whatever they hold on other groups.
C9_AuthCheck ==
  \A c \in Callers, ref \in GroupRefs :
    \A g \in FindGroups(DB, ref[1], ref[2]) :
      LET rc == require_owner_by_email(DB, c, ref[1], ref[2])
          resolved == Cardinality(PersonsOf(c)) = 1
      IN  /\ rc = 200 <=> (resolved /\ IsEffectiveOwner(c, g))
          /\ PersonsOf(c) = {} => rc = 403
          /\ (resolved /\ ~IsEffectiveOwner(c, g)) => rc = 403

\* ann is allowed on Dev, bob holds a row on Ops only and is denied on Dev
\* and allowed on Ops, zed is nobody
C9_Witness ==
  /\ require_owner_by_email(DB, "ann@x", "JIRA", "dev") = 200
  /\ require_owner_by_email(DB, "bob@x", "JIRA", "dev") = 403
  /\ require_owner_by_email(DB, "bob@x", "confluence", "Ops") = 200
  /\ require_owner_by_email(DB, "zed@x", "JIRA", "dev") = 403
  /\ PersonsOf("bob@x") # {}
  /\ PersonsOf("zed@x") = {}

\* a request of caller c on the group ref that adds or removes grants or
\* rules, or deletes the group
OwnerManagement(c, ref) ==
  \/ \E id \in DirectIds : add_user_owner(c, ref, id)
  \/ \E id \in DirectIds : remove_user_owner(c, ref, id)
  \/ \E n \in OwningNames : add_group_owner(c, ref, n)
  \/ \E n \in OwningNames : remove_group_owner_begin(c, ref, n)
  \/ delete_delegated_group(c, ref)

\* C10: an owner-management request on an existing group by a caller who is
\* not an effective owner of it answers 403 and leaves persons, groups,
\* grants and rules as they were.
C10_MutationsGated ==
  [][\A c \in Callers, ref \in GroupRefs :
       \A g \in FindGroups(DB, ref[1], ref[2]) :
         (~IsEffectiveOwner(c, g) /\ OwnerManagement(c, ref)) =>
           (last'.res = 403 /\ UNCHANGED <<users, groups, owners, rules>>)]_vars

\* C12: a step that takes a dg_managed_group row away takes every
\* dg_group_owner row and every dg_group_owner_group row of that group with
\* it, and in every state each row and each rule belongs to a group that is
\* there: the group is never seen without its rows and rules or the other
\* way round.
C12_DeleteCascades ==
  [][/\ \A g \in groups : g \notin groups' =>
          /\ \A o \in owners' : o.managed_group_id # g.id
          /\ \A r \in rules' : r.managed_group_id # g.id
     /\ \A o \in owners' : \E g \in groups' : g.id = o.managed_group_id
     /\ \A r \in rules' : \E g \in groups' : g.id = r.managed_group_id]_vars

\* Dev, created with a grant and a rule and given a second grant, has been
\* deleted; Ops and its grant are still there
C12_Witness ==
  /\ last.op = "delete_delegated_group"
  /\ last.res = 200
  /\ seq.group = 2
  /\ seq.owner >= 3
  /\ Cardinality(groups) = 1
  /\ Cardinality(owners) = 1
  /\ \A g \in groups : g.app = "confluence"
  /\ rules = {}

(***************************************************************************)
(* Uniqueness of grants and persons (SpecRace)                             *)
(***************************************************************************)
SameGrant(o1, o2) ==
  /\ o1.managed_group_id = o2.managed_group_id
  /\ o1.user_id = o2.user_id
  /\ o1.source_type = o2.source_type
  /\ o1.via_group_name = o2.via_group_name

\* C13: in every reachable state no two dg_group_owner rows share
\* (group, person, kind, owning-group name or absent); in particular nobody
\* holds two USER_OWNER rows on one group, also after a creation request
\* that lists the same user twice.
C13_GrantRowsUnique ==
  \A o1, o2 \in owners : SameGrant(o1, o2) => o1 = o2

\* the person an open add_user_owner request inserts its row for
TxUserId == IF addTx.uid = 0 THEN Cardinality(users) + 1 ELSE addTx.uid

AddCommits ==
  /\ addTx.pc = "checked"
  /\ addTx'.pc = "idle"
  /\ last'.op = "add_user_owner"
  /\ last'.res = 201

\* C14: two add_user_owner requests for the same (group, person) that run
\* concurrently are safe: when a request whose check found no row commits
\* its INSERT, the pair holds exactly one USER_OWNER row afterwards.
C14_ConcurrentAddSafe ==
  [][AddCommits =>
       Cardinality({o \in owners' : /\ o.managed_group_id = addTx.gid
                                    /\ o.user_id = TxUserId
                                    /\ o.source_type = "USER_OWNER"
                                    /\ o.via_group_name = None}) = 1]_vars

\* C15: in every reachable state no two dg_user rows share
\* (lower_username, lower_email), the pair (name, no email) included, also
\* when a request and a unit of the refresh job resolve the same identity
\* in concurrent transactions.
C15_PersonsUnique ==
  \A u1, u2 \in users :
    (u1.lower_username = u2.lower_username /\ u1.lower_email = u2.lower_email)
      => u1 = u2

(***************************************************************************)
(* Person resolution (SpecUser)                                            *)
(***************************************************************************)
Normalized(id) == <<ToLower(id[1]), LowerOrNone(id[2])>>

Returned == CHOOSE u \in users : u.id = last.res

\* C16: a call of get_or_create_user adds at most one dg_user row, and
\* calling it again with any pair that normalizes to the same
\* (lowercase username, lowercase email or none) adds no row and returns the
\* row the first call returned.
C16_ResolveTwiceSame ==
  [][last'.op = "get_or_create_user" =>
       /\ Cardinality(users') <= Cardinality(users) + 1
       /\ \A q \in UserPairs :
            Normalized(q) = <<Returned'.lower_username, Returned'.lower_email>> =>
              /\ get_or_create_user(DB', q[1], q[2]).users = users'
              /\ UserId(DB', q[1], q[2]) = last'.res]_vars

\* "Bob"/"Bob@X" was resolved first and a later call found that row again;
\* a person without email is stored as well
C16_Witness ==
  /\ last.op = "get_or_create_user" /\ last.added = 0 /\ last.res = 1
  /\ \E u \in users : u.id = 1 /\ u.username = "Bob" /\ u.email = "Bob@X"
  /\ \E u \in users : u.lower_username = "bob" /\ u.lower_email = None

(***************************************************************************)
(* The unit of the refresh job as a transaction (SpecUnit)                 *)
(***************************************************************************)
UnitCommits == syncTx.pc = "deleted" /\ syncTx'.pc = "idle" /\ last'.op = "sync_pair"

\* C17: the storage mutations of one unit of the refresh job form one
\* transaction: every step taken while a unit is open (its statements, its
\* commit, the stop of the job) shows the other sessions either no change
\* of the tables or, at the commit, the whole diff of the unit; a stopped
\* unit leaves the tables, the earlier units' rows included, as they were.
C17_UnitAtomic ==
  [][UnitOpen =>
       \/ DB' = DB
       \/ /\ UnitCommits
          /\ DB' = UnitResult
          /\ owners' = (owners \cup syncTx.adds) \ syncTx.dels]_vars

\* a unit that both inserted and deleted rows has committed
C17_Witness ==
  /\ last.op = "sync_pair" /\ last.res = 200
  /\ last.added >= 1 /\ last.removed >= 1
  /\ ~UnitOpen

(***************************************************************************)
(* The directory requests of a run (SpecSched)                             *)
(***************************************************************************)
\* C18: within one run of the job the member list of an owning group is
\* fetched at most once per (app, lowercase owning-group name), also when
\* the owning group backs several delegated groups.
C18_FetchedOncePerRun == run.again = {}

(***************************************************************************)
(* Termination of a fetch (SpecFetch)                                      *)
(***************************************************************************)
\* C19: every member-list fetch terminates whatever the external system
\* answers: a fetch that is paging eventually stops paging, also when every
\* answer is a 200 with a full page or with isLast false.
C19_FetchTerminates == (paging.pc = "paging") ~> (paging.pc # "paging")

(***************************************************************************)
(* Repeated add_user_owner (SpecAdd)                                       *)
(***************************************************************************)
\* the USER_OWNER rows of bob on Dev in the tables s
BobDirect(s) ==
  {o \in s.owners :
     /\ o.source_type = "USER_OWNER"
     /\ o.via_group_name = None
     /\ \E g \in FindGroups(s, "jira", "Dev") : o.managed_group_id = g.id
     /\ \E u \in s.users : /\ u.id = o.user_id
                            /\ u.lower_username = "bob"
                            /\ u.lower_email = "bob@x"}

Refused == {400, 403, 404, 500}

\* C20: add_user_owner is idempotent: a call that is not refused, for a pair
\* without a USER_OWNER row, inserts exactly one and reports that it was
\* added (201); a call for a pair that has the row changes no row and
\* reports that it already exists (200).
C20_AddIdempotent ==
  [][(last'.op = "add_user_owner" /\ last'.res \notin Refused) =>
       IF BobDirect(DB) = {}
       THEN /\ last'.res = 201
            /\ Cardinality(BobDirect(DB')) = 1
            /\ owners' = owners \cup BobDirect(DB')
       ELSE /\ last'.res = 200
            /\ DB' = DB]_vars

(***************************************************************************)
(* Removal of a direct grant (SpecRemove)                                  *)
(***************************************************************************)
\* C21: remove_user_owner deletes only the USER_OWNER row of one person on
\* the group and returns the count removed, 0 or 1: a call that is not
\* refused deletes at most one row, a USER_OWNER row, reports that count,
\* and adds or changes no other row.
C21_RemoveOnlyOne ==
  [][(last'.op = "remove_user_owner" /\ last'.res \notin Refused) =>
       /\ owners' \subseteq owners
       /\ Cardinality(owners \ owners') <= 1
       /\ last'.removed = Cardinality(owners \ owners')
       /\ \A o \in owners \ owners' : o.source_type = "USER_OWNER"
       /\ users' = users /\ groups' = groups /\ rules' = rules]_vars

(***************************************************************************)
(* Adding an owning-group rule (SpecRule)                                  *)
(***************************************************************************)
SameRuleKey(r1, r2) ==
  /\ r1.managed_group_id = r2.managed_group_id
  /\ r1.lower_owning_group_name = r2.lower_owning_group_name

\* C22: add_group_owner is an idempotent insert keyed by (group, lowercase
\* owning-group name): a call that is not refused either inserts one rule
\* whose key no rule had, or (the key being taken under any spelling)
\* changes nothing; no two rules share a key afterwards, and the call
\* changes no dg_group_owner row, no user and no group.
C22_AddRuleIdempotent ==
  [][(last'.op = "add_group_owner" /\ last'.res \notin Refused) =>
       /\ owners' = owners /\ users' = users /\ groups' = groups
       /\ \A r1, r2 \in rules' : SameRuleKey(r1, r2) => r1 = r2
       /\ IF last'.res = 201
          THEN /\ rules \subseteq rules'
               /\ Cardinality(rules' \ rules) = 1
               /\ \A n \in rules' \ rules : \A r \in rules : ~SameRuleKey(n, r)
          ELSE /\ last'.res = 200
               /\ rules' = rules]_vars

\* the rule X of Dev was found by a later call, a second spelling "x" of it
\* was not stored, and bob's GROUP_OWNER row came from elsewhere
C22_Witness ==
  /\ last.op = "add_group_owner" /\ last.res = 200
  /\ \E r \in rules : r.owning_group_name = "X"
  /\ \E r \in rules : r.owning_group_name = "Y"
  /\ \A r \in rules : r.owning_group_name # "x"
  /\ Cardinality(owners) = 2

(***************************************************************************)
(* Uniqueness of delegated groups (SpecGroup)                              *)
(***************************************************************************)
GroupsUnique(gs) ==
  \A g1, g2 \in gs :
    (g1.app = g2.app /\ g1.lower_group_name = g2.lower_group_name) => g1 = g2

Shown(e) == <<e.username, e.email, e.source_type, e.via_group_name>>

\* C24: get_group_owners returns one entry per grant on the group, ordered
\* by grant kind and then by the person's lowercase username, and the
\* output is determined by the tables: every listing the query can return
\* in this state shows the same sequence.
C24_ListingOrdered ==
  [][last'.op = "get_group_owners" =>
       LET out == last'.out
           n == Len(out)
       IN  /\ {out[i] : i \in 1..n} = OwnerEntries(DB, "jira", "Dev")
           /\ n = Cardinality(OwnerEntries(DB, "jira", "Dev"))
           /\ \A i, j \in 1..n : i < j =>
                \/ KindRank(out[i].source_type) < KindRank(out[j].source_type)
                \/ /\ out[i].source_type = out[j].source_type
                   /\ NameRank(ToLower(out[i].username)) <= NameRank(ToLower(out[j].username))
           /\ \A other \in GroupOwnerListings(DB, "jira", "Dev") :
                \A i \in 1..n : Shown(other[i]) = Shown(out[i])]_vars

(***************************************************************************)
(* Person resolution leaves the stored persons alone (SpecUser)            *)
(***************************************************************************)
\* C25: get_or_create_user never modifies a stored dg_user row; called with
\* a username that is stored, but with an email no stored row of that
\* username has (or with an email where the stored one is NULL), it adds a
\* second row with a new id and leaves every stored row as it was.
C25_ResolveKeepsPersons ==
  [][last'.op = "get_or_create_user" =>
       /\ users \subseteq users'
       /\ groups' = groups /\ owners' = owners /\ rules' = rules
       /\ last'.added = 1 =>
            \E new \in users' : /\ users' = users \cup {new}
                                /\ new.id = last'.res
                                /\ \A u \in users : u.id # new.id
       /\ \A q \in UserPairs :
            (/\ \E u \in users' : u.lower_username = ToLower(q[1])
             /\ FindUsers(DB', q[1], q[2]) = {}) =>
              LET after == get_or_create_user(DB', q[1], q[2]).users
              IN  /\ users' \subseteq after
                  /\ Cardinality(after \ users') = 1
                  /\ \A new \in after \ users' :
                       /\ <<new.lower_username, new.lower_email>> = Normalized(q)
                       /\ \A u \in users' : u.id # new.id]_vars

\* bob was stored without email; the call with bob and bob@x added a second
\* row, and the first row still has no email
C25_Witness ==
  /\ last.op = "get_or_create_user" /\ last.added = 1 /\ last.res = 2
  /\ \E u \in users : u.id = 1 /\ u.username = "bob" /\ u.email = None
  /\ \E u \in users : u.id = 2 /\ u.username = "bob" /\ u.email = "bob@x"

(***************************************************************************)
(* The refresh job and deleted groups (SpecPrune)                          *)
(***************************************************************************)
\* C26: the refresh job never creates a dg_managed_group row: a step of its
\* loop leaves no group that was not there before the step, and every
\* GROUP_OWNER row it adds belongs to a group that was there, also when the
\* group was deleted after the job enumerated its rows.
C26_SyncCreatesNoGroup ==
  [][last'.op = "sync_pair" =>
       /\ groups' \subseteq groups
       /\ \A o \in owners' \ owners :
            \E g \in groups : g.id = o.managed_group_id]_vars

(***************************************************************************)
(* The refresh job and removed rules (SpecStale)                           *)
(***************************************************************************)
\* the pair (group, owning group) is configured or expanded in the tables
PairPresent(s, gid, lname) ==
  \/ \E r \in s.rules : r.managed_group_id = gid /\ r.lower_owning_group_name = lname
  \/ \E o \in s.owners : /\ o.managed_group_id = gid
                          /\ o.source_type = "GROUP_OWNER"
                          /\ ToLower(o.via_group_name) = lname

\* C27: once remove_group_owner(G, X) has committed and left neither the
\* rule nor a GROUP_OWNER row for (G, X), no step of the refresh job (its
\* backfill, its enumeration, an iteration of its loop over rows read
\* before the removal) stores a rule or a GROUP_OWNER row for (G, X) again.
C27_RemovedRuleStaysRemoved ==
  [][(run' # run /\ removeTx.pc = "idle") =>
       \A gid \in 1..MaxGroupId : \A lname \in {"x", "y"} :
         ~PairPresent(DB, gid, lname) => ~PairPresent(DB', gid, lname)]_vars

(***************************************************************************)
(* Members of an owning group pass the check after a run (SpecAuth)        *)
(***************************************************************************)
\* the email a member calls with: the one the directory lists, or, when the
\* directory lists none, the member's address at the employee service
OwnEmail(m) ==
  IF m[2] # None THEN m[2]
  ELSE CASE m[1] = "cy" -> "cy@x"
         [] OTHER -> "zed@x"

LiveMembers(app, owning_group_name) ==
  LET ms == fetch_members_for_group(upstream, app, owning_group_name).members
  IN  {ms[i] : i \in 1..Len(ms)}

\* C28: when a run of the refresh job has completed without failure, every
\* member the directory lists for an owning group X with a rule (G, X)
\* passes require_owner_by_email for G with the member's own email, also a
\* member listed without email and a member stored under another letter case.
C28_MembersPassCheck ==
  [][(run.pc = "loop" /\ run'.pc = "idle" /\ last'.op = "refresh" /\ last'.res = 200) =>
       \A r \in rules' : \A g \in groups' :
         g.id = r.managed_group_id =>
           \A m \in LiveMembers(g.app, r.owning_group_name) :
             require_owner_by_email(DB', OwnEmail(m), g.app, g.group_name) = 200]_vars

(***************************************************************************)
(* The authorization check is total (SpecCheck)                            *)
(***************************************************************************)
\* C29: in every state the uniqueness rule of dg_user permits, two persons
\* of different usernames and one email included, require_owner_by_email
\* (and the requester lookup of my_groups) ends in allow (200), Forbidden
\* (403) or Not Found (404), never in another error, and changes no row.
C29_CheckIsTotal ==
  [][last'.op \in {"require_owner_by_email", "my_groups"} =>
       /\ last'.res \in {200, 403, 404}
       /\ DB' = DB]_vars

(***************************************************************************)
(* The rows of dg_group_owner are well-formed (SpecForm)                   *)
(***************************************************************************)
\* C30: every dg_group_owner row is well-formed: a USER_OWNER row has no
\* via_group_name and a GROUP_OWNER row has a non-empty via_group_name, in
\* every state the handlers, the service calls and the refresh job reach.
C30_GrantsWellFormed ==
  \A o \in owners :
    /\ o.source_type \in {"USER_OWNER", "GROUP_OWNER"}
    /\ o.source_type = "USER_OWNER" => o.via_group_name = None
    /\ o.source_type = "GROUP_OWNER" => o.via_group_name \notin {None, ""}

====
